---- MODULE Spec2Model ----
(***************************************************************************)
(* The J* bytecode virtual machine (jstar/src/vm.c): operand stack, frame  *)
(* stack, handlers, upvalues, calls, operator overloads, imports, and the  *)
(* evaluation loop runEval with the unwinder unwindStack.                  *)
(*                                                                         *)
(* The variable vm is the JStarVM struct.  Fields whose name starts with   *)
(* g_ are history (ghost) fields: they record what the machine did and are *)
(* never read by the machine itself.  prog is the compiled program the     *)
(* machine runs (Function objects with their bytecode), depth is the       *)
(* argument of runEval and status is where runEval is: "run" inside the    *)
(* dispatch loop, "true" / "false" after it returned that value.           *)
(***************************************************************************)
EXTENDS Integers, Sequences, FiniteSets, TLC

VARIABLES vm, prog, depth, status

vars == <<vm, prog, depth, status>>

----------------------------------------------------------------------------
(* Bounds of the model *)

\* deepest nesting of try blocks in a generated function
MaxNest == 2

\* most import statements in a generated main function
MaxImports == 2

\* most iterations of a generated counting loop
MaxCount == 2

\* largest number of parameters of a generated function
MaxArity == 2

\* most elements of a generated tuple or list, and most targets of an unpacking
MaxElems == 3

\* most characters of a generated JSTARPATH value
MaxPathLen == 3

\* most lines read by a generated REPL session, and most completions asked in it
MaxLines == 2

\* number of distinct failing results a generated evaluation may have
NumErrors == 2

\* size of a frame's handler array: the compiler rejects a function whose try
\* blocks nest deeper, so the generated functions nest up to it
HANDLER_MAX == MaxNest

\* deepest recursion of a generated recursive function
MaxRecursion == 3

\* largest conf->stackSize a VM is created with
MaxStackSize == 5

\* most local variables of a function, scaled down; a frame is granted
\* MAX_LOCALS + 1 slots of the operand stack
MAX_LOCALS == 3

\* number of slots of the operand stack (vm->stackSz)
StackSz == 12

\* frame depth at which a call raises StackOverflowException
RECURSION_LIMIT == 6

\* UnwindCause
CAUSE_EXCEPT == 0
CAUSE_RETURN == 1

----------------------------------------------------------------------------
(* Values *)

NULL_VAL == [t |-> "null", v |-> 0]
NUM_VAL(n) == [t |-> "num", v |-> n]
BOOL_VAL(b) == [t |-> "bool", v |-> IF b THEN 1 ELSE 0]
OBJ_VAL(id) == [t |-> "obj", v |-> id]

IS_NULL(x) == x.t = "null"
IS_NUM(x) == x.t = "num"
IS_BOOL(x) == x.t = "bool"
IS_OBJ(x) == x.t = "obj"
AS_NUM(x) == x.v
AS_OBJ(x) == x.v

\* truthiness: only null and false are falsy
isValTrue(x) == ~(IS_NULL(x) \/ (IS_BOOL(x) /\ x.v = 0))

\* primitive equality: numbers by value, bool / null by tag, objects by identity
valueEquals(a, b) == a = b

ObjOf(m, x) == m.objects[AS_OBJ(x)]
IS_TYPE(m, x, ty) == IS_OBJ(x) /\ ObjOf(m, x).type = ty
IS_STRING(m, x) == IS_TYPE(m, x, "string")
----------------------------------------------------------------------------
(* Operand stack (vm.h inline functions) *)

push(m, x) == [m EXCEPT !.stack[m.sp] = x, !.sp = m.sp + 1]
pop(m) == [m EXCEPT !.sp = m.sp - 1]
peek(m) == m.stack[m.sp - 1]
peek2(m) == m.stack[m.sp - 2]
peekn(m, n) == m.stack[m.sp - (n + 1)]

getClass(m, x) ==
    IF IS_NUM(x) THEN m.numClass
    ELSE IF IS_OBJ(x) THEN ObjOf(m, x).cls
    ELSE IF IS_BOOL(x) THEN m.boolClass
    ELSE m.nullClass

RECURSIVE superChain(_, _, _)
superChain(m, c, cls) ==
    IF c = 0 THEN FALSE
    ELSE IF c = cls THEN TRUE
    ELSE superChain(m, m.objects[c].superCls, cls)

isInstance(m, i, cls) == superChain(m, getClass(m, i), cls)

----------------------------------------------------------------------------
(* Heap allocation and hash tables *)

\* a new object is linked into vm->objects; its id is its position
NextId(m) == Len(m.objects) + 1
alloc(m, o) == [m EXCEPT !.objects = Append(@, o)]

hashTableGet(t, k) == k \in DOMAIN t
hashTablePut(t, k, x) == [n \in DOMAIN t \cup {k} |-> IF n = k THEN x ELSE t[n]]
hashTableMerge(t, from) == [n \in DOMAIN t \cup DOMAIN from |-> IF n \in DOMAIN from THEN from[n] ELSE t[n]]
EmptyTable == [n \in {} |-> NULL_VAL]

Top(m) == m.frames[Len(m.frames)]
FnOf(m, frame) == prog.fns[m.objects[frame.fn].fn]

----------------------------------------------------------------------------
(* Garbage collection.  Any allocation may run a collection, which frees    *)
(* every object that is not reachable from the roots.                       *)

ValueObjs(S) == {AS_OBJ(x) : x \in {y \in S : IS_OBJ(y)}}

\* the objects an object refers to (a Closure also to the constants of its Function)
Refs(m, i) ==
    LET o == m.objects[i]
        Range(f) == {f[k] : k \in DOMAIN f}
    IN  ({o.cls} \ {0}) \cup
        CASE o.type = "class" -> ({o.superCls} \ {0}) \cup ValueObjs(Range(o.methods))
          [] o.type = "inst" -> ValueObjs(Range(o.fields))
          [] o.type = "module" -> ValueObjs(Range(o.globals))
          [] o.type = "closure" ->
                (Range(o.upvalues) \ {0})
                \cup ValueObjs({ins.v : ins \in {c \in Range(prog.fns[o.fn].code) : "v" \in DOMAIN c}})
          [] o.type = "boundmethod" -> ValueObjs({o.bound}) \cup {o.method}
          [] o.type \in {"tuple", "list"} -> ValueObjs(Range(o.arr))
          [] o.type = "upvalue" -> ValueObjs({o.closed})
          [] OTHER -> {}

RECURSIVE Reach(_, _)
Reach(m, S) ==
    LET N == S \cup UNION {Refs(m, i) : i \in S}
    IN  IF N = S THEN S ELSE Reach(m, N)

\* the roots: the operand stack below sp, the callable of every frame, the open
\* upvalues, the module table, the current and the core module, the built-in classes
Reachable(m) ==
    Reach(m, ValueObjs({m.stack[i] : i \in 0..m.sp - 1})
             \cup {m.frames[i].fn : i \in 1..Len(m.frames)}
             \cup {m.upvalues[i] : i \in 1..Len(m.upvalues)}
             \cup {m.modules[n] : n \in DOMAIN m.modules}
             \cup {m.module, m.core}
             \cup {m.clsClass, m.objClass, m.strClass, m.boolClass, m.lstClass, m.numClass,
                   m.funClass, m.modClass, m.nullClass, m.stClass, m.tupClass, m.excClass,
                   m.tableClass, m.udataClass})

\* the machine is about to allocate while the running operation holds the objects
\* S for later use: g_unrooted collects those a collection would free
Held(m, S) == [m EXCEPT !.g_unrooted = @ \cup (S \ Reachable(m))]

----------------------------------------------------------------------------
(* Upvalues *)

newUpvalue(m, addr) ==
    [type |-> "upvalue", cls |-> 0, open |-> TRUE, addr |-> addr, closed |-> NULL_VAL,
     g_org |-> [f |-> Top(m).serial, a |-> addr]]

\* the value an upvalue refers to: its stack slot while open, its own cell once closed
UpvalueRead(m, u) ==
    IF m.objects[u].open THEN m.stack[m.objects[u].addr] ELSE m.objects[u].closed

UpvalueWrite(m, u, x) ==
    IF m.objects[u].open THEN [m EXCEPT !.stack[m.objects[u].addr] = x]
    ELSE [m EXCEPT !.objects[u].closed = x]

\* faulty variant of captureUpvalue: a new upvalue is put at the head of the list
captureUpvalue_M(m, addr) ==
    [vm |-> [alloc(m, newUpvalue(m, addr)) EXCEPT !.upvalues = <<NextId(m)>> \o m.upvalues],
     uv |-> NextId(m)]

\* vm->upvalues is the list of open upvalues, head first, by descending address
captureUpvalue(m, addr) ==
    LET L == m.upvalues
        k == Cardinality({i \in 1..Len(L) : \A j \in 1..i : m.objects[L[j]].addr > addr})
    IN  IF k < Len(L) /\ m.objects[L[k + 1]].addr = addr
        THEN [vm |-> m, uv |-> L[k + 1]]
        ELSE LET id == NextId(m)
                 m1 == alloc(m, newUpvalue(m, addr))
             IN  [vm |-> [m1 EXCEPT !.upvalues = SubSeq(L, 1, k) \o <<id>> \o SubSeq(L, k + 1, Len(L))],
                  uv |-> id]

RECURSIVE closeUpvalues(_, _)
closeUpvalues(m, last) ==
    IF m.upvalues # <<>> /\ m.objects[Head(m.upvalues)].addr >= last
    THEN LET u == Head(m.upvalues)
         IN  closeUpvalues([m EXCEPT !.objects[u].closed = m.stack[m.objects[u].addr],
                                     !.objects[u].open = FALSE,
                                     !.objects[u].addr = -1,
                                     !.upvalues = Tail(@)], last)
    ELSE m

----------------------------------------------------------------------------
(* Raising from C code *)

NoMsg == [text |-> "", q |-> "", a |-> 0, b |-> 0]
Msg(text, q, a, b) == [text |-> text, q |-> q, a |-> a, b |-> b]

newInstance(m, cls) ==
    [type |-> "inst", cls |-> cls, fields |-> EmptyTable, msg |-> NoMsg]

\* jsrRaise: instantiate the named exception class with the formatted message,
\* attach a new stack trace and leave the instance on top of the stack
jsrRaise(m, clsName, msg) ==
    LET st == NextId(m)
        m1 == alloc(m, [type |-> "stacktrace", cls |-> m.stClass, records |-> <<>>])
        ex == NextId(m1)
        m2 == alloc(m1, [type |-> "inst",
                         cls |-> AS_OBJ(m.objects[m.core].globals[clsName]),
                         fields |-> hashTablePut(EmptyTable, "stacktrace", OBJ_VAL(st)),
                         msg |-> msg])
    IN  push(m2, OBJ_VAL(ex))

Fail(m) == [ok |-> FALSE, vm |-> m]
Ok(m) == [ok |-> TRUE, vm |-> m]

----------------------------------------------------------------------------
(* Calls *)

\* the FnCommon of a Closure (its Function's) or of a Native
FnCommon(m, id) ==
    IF m.objects[id].type = "closure" THEN prog.fns[m.objects[id].fn] ELSE m.objects[id]

\* c.module of a Closure's Function or of a Native: the Module registered under its name
ModuleOf(m, id) == m.modules[FnCommon(m, id).module]

RECURSIVE pushAll(_, _)
pushAll(m, xs) == IF xs = <<>> THEN m ELSE pushAll(push(m, Head(xs)), Tail(xs))

packVarargs(m, count) ==
    LET id == NextId(m)
        args == [type |-> "tuple", cls |-> m.tupClass,
                 arr |-> [i \in 1..count |-> m.stack[m.sp - count + i - 1]]]
        m1 == alloc(Held(m, ValueObjs({args.arr[i] : i \in 1..count})), args)
    IN  push([m1 EXCEPT !.sp = m.sp - count], OBJ_VAL(id))

argumentError(m, c, expected, supplied, quantity) ==
    jsrRaise(m, "TypeException", Msg("takes_arguments", quantity, expected, supplied))

\* faulty variant of adjustArguments: the defaults are pushed from the first one
adjustArguments_M(m, c, argc) ==
    LET most == c.argsCount
        least == (most - c.defaultc) % 256
    IN  IF ~c.vararg /\ most = least /\ argc # c.argsCount
        THEN Fail(argumentError(m, c, c.argsCount, argc, "exactly"))
        ELSE IF ~c.vararg /\ argc > most
        THEN Fail(argumentError(m, c, most, argc, "at most"))
        ELSE IF argc < least
        THEN Fail(argumentError(m, c, least, argc, "at least"))
        ELSE LET first == (argc - least) % 256
                 m1 == pushAll(m, [i \in 1..(IF first < c.defaultc THEN c.defaultc - first ELSE 0)
                                     |-> c.defaults[i]])
             IN  IF c.vararg
                 THEN Ok(packVarargs(m1, IF argc > most THEN argc - most ELSE 0))
                 ELSE Ok(m1)

adjustArguments(m, c, argc) ==
    LET most == c.argsCount
        least == (most - c.defaultc) % 256
    IN  IF ~c.vararg /\ most = least /\ argc # c.argsCount
        THEN Fail(argumentError(m, c, c.argsCount, argc, "exactly"))
        ELSE IF ~c.vararg /\ argc > most
        THEN Fail(argumentError(m, c, most, argc, "at most"))
        ELSE IF argc < least
        THEN Fail(argumentError(m, c, least, argc, "at least"))
        ELSE LET first == (argc - least) % 256
                 m1 == pushAll(m, [i \in 1..(IF first < c.defaultc THEN c.defaultc - first ELSE 0)
                                     |-> c.defaults[first + i]])
             IN  IF c.vararg
                 THEN Ok(packVarargs(m1, IF argc > most THEN argc - most ELSE 0))
                 ELSE Ok(m1)

FrameName(m, frame) ==
    IF m.objects[frame.fn].type = "closure" THEN m.objects[frame.fn].fn
    ELSE m.objects[frame.fn].name

\* what the stack holds when a frame is entered: its base, the value in the base
\* slot and the values above it up to sp
Entry(m, base, fn) ==
    [fn |-> fn, base |-> base, callee |-> m.stack[base],
     params |-> [i \in 1..(m.sp - base - 1) |-> m.stack[base + i]]]

\* faulty variant of getFrame: the varargs tuple is not counted
getFrame_M(m, c, fn, ip) ==
    [m EXCEPT !.frames = Append(@, [ip |-> ip,
                                    stack |-> m.sp - (c.argsCount + 1),
                                    fn |-> fn,
                                    handlers |-> <<>>,
                                    serial |-> m.g_serial + 1]),
              !.frameSz = IF Len(m.frames) + 1 = @ THEN 2 * @ ELSE @,
              !.g_serial = @ + 1,
              !.g_calls = Append(@, FrameName(m, [fn |-> fn])),
              !.g_frame = Entry(m, m.sp - (c.argsCount + 1), fn)]

\* faulty variant of getFrame: handlerc of the new frame is not reset
getFrame_H(m, c, fn, ip) ==
    [m EXCEPT !.frames = Append(@, [ip |-> ip,
                                    stack |-> m.sp - (c.argsCount + 1) - (IF c.vararg THEN 1 ELSE 0),
                                    fn |-> fn,
                                    handlers |-> Top(m).handlers,
                                    serial |-> m.g_serial + 1]),
              !.frameSz = IF Len(m.frames) + 1 = @ THEN 2 * @ ELSE @,
              !.g_serial = @ + 1,
              !.g_calls = Append(@, FrameName(m, [fn |-> fn])),
              !.g_frame = Entry(m, m.sp - (c.argsCount + 1) - (IF c.vararg THEN 1 ELSE 0), fn)]

getFrame(m, c, fn, ip) ==
    [m EXCEPT !.frames = Append(@, [ip |-> ip,
                                    stack |-> m.sp - (c.argsCount + 1) - (IF c.vararg THEN 1 ELSE 0),
                                    fn |-> fn,
                                    handlers |-> <<>>,
                                    serial |-> m.g_serial + 1]),
              !.frameSz = IF Len(m.frames) + 1 = @ THEN 2 * @ ELSE @,
              !.g_serial = @ + 1,
              !.g_calls = Append(@, FrameName(m, [fn |-> fn])),
              !.g_frame = Entry(m, m.sp - (c.argsCount + 1) - (IF c.vararg THEN 1 ELSE 0), fn)]

appendCallFrame(m, closure) == getFrame(m, FnCommon(m, closure), closure, 1)
appendNativeFrame(m, native) == getFrame(m, m.objects[native], native, 0)

callFunction(m, closure, argc) ==
    IF Len(m.frames) + 1 = RECURSION_LIMIT
    THEN Fail(jsrRaise(m, "StackOverflowException", NoMsg))
    ELSE LET r == adjustArguments(m, FnCommon(m, closure), argc)
         IN  IF ~r.ok THEN r
             ELSE Ok([appendCallFrame(r.vm, closure) EXCEPT !.module = ModuleOf(m, closure)])

\* The operand stack moved to a new allocation.  Cells are named by their offset,
\* which a move keeps; g_stack counts the allocations, and g_api is the allocation
\* the pointer vm->apiStack points into, which the move brings along with sp, the
\* frames' bases and the open upvalues.
reallocateStack(m) == [m EXCEPT !.g_stack = @ + 1, !.g_api = m.g_stack + 1]

\* the host function of a Native: it sees its arguments on the API stack and either
\* pushes one return value and returns true, or raises and returns false
hostFunction(m, native) ==
    CASE m.objects[native].fn = "fail" ->
           Fail(jsrRaise(m, "Exception", Msg("native_failed", "", 0, 0)))
      [] m.objects[native].fn = "ret" ->
           \* its argument is slot 1 of the API stack; it leaves a temporary below
           \* its return value, the argument plus 37
           Ok(push(push(m, NULL_VAL), NUM_VAL(AS_NUM(m.stack[m.apiStack + 1]) + 37)))
      [] m.objects[native].fn = "new" ->
           \* constructs the value itself when its receiver is null
           Ok(push(m, IF IS_NULL(m.stack[m.apiStack]) THEN NUM_VAL(0) ELSE NUM_VAL(-1)))
      [] m.objects[native].fn = "str" ->
           \* the __string__ method of the built-in classes
           Ok(push(m, NUM_VAL(-2)))
      [] m.objects[native].fn = "grow" ->
           Ok(push(reallocateStack(m), NULL_VAL))
      [] m.objects[native].fn = "growfail" ->
           Fail(jsrRaise(reallocateStack(m), "Exception", Msg("native_failed", "", 0, 0)))
      [] OTHER -> Ok(push(m, NULL_VAL))

\* the two exits of callNative after the host function, m being the VM as the
\* host function left it: the module and the API frame of the caller are put back,
\* the pointer vm->apiStack being computed from the stack as it is now; on
\* success the native's frame is popped and its return value replaces the frame
nativeFailed(m, oldModule, apiStackOff) ==
    [m EXCEPT !.module = oldModule, !.apiStack = apiStackOff, !.g_api = m.g_stack]

nativeReturned(m, oldModule, apiStackOff) ==
    LET ret == peek(m)
    IN  push([m EXCEPT !.frames = SubSeq(@, 1, Len(@) - 1),
                       !.sp = m.apiStack,
                       !.module = oldModule,
                       !.apiStack = apiStackOff,
                       !.g_api = m.g_stack], ret)

\* faulty variant of callNative: what the host function left below its return value
\* stays on the stack
callNative_M(m, native, argc) ==
    IF Len(m.frames) + 1 = RECURSION_LIMIT
    THEN Fail(jsrRaise(m, "StackOverflowException", NoMsg))
    ELSE LET r == adjustArguments(m, m.objects[native], argc)
         IN  IF ~r.ok THEN r
             ELSE LET m1 == appendNativeFrame(r.vm, native)
                      oldModule == m1.module
                      apiStackOff == m1.apiStack
                      m2 == [m1 EXCEPT !.module = ModuleOf(m, native),
                                       !.apiStack = Top(m1).stack,
                                       !.g_api = m1.g_stack]
                      h == hostFunction(m2, native)
                  IN  IF ~h.ok
                      THEN Fail(nativeFailed(h.vm, oldModule, apiStackOff))
                      ELSE Ok([nativeReturned(h.vm, oldModule, apiStackOff)
                                 EXCEPT !.stack = h.vm.stack, !.sp = h.vm.sp])

\* faulty variant of callNative: the pointer vm->apiStack itself is saved and put
\* back, not its offset
callNative_P(m, native, argc) ==
    IF Len(m.frames) + 1 = RECURSION_LIMIT
    THEN Fail(jsrRaise(m, "StackOverflowException", NoMsg))
    ELSE LET r == adjustArguments(m, m.objects[native], argc)
         IN  IF ~r.ok THEN r
             ELSE LET m1 == appendNativeFrame(r.vm, native)
                      oldModule == m1.module
                      apiStackOff == m1.apiStack
                      m2 == [m1 EXCEPT !.module = ModuleOf(m, native),
                                       !.apiStack = Top(m1).stack,
                                       !.g_api = m1.g_stack]
                      h == hostFunction(m2, native)
                  IN  IF ~h.ok
                      THEN Fail([nativeFailed(h.vm, oldModule, apiStackOff) EXCEPT !.g_api = m1.g_api])
                      ELSE Ok([nativeReturned(h.vm, oldModule, apiStackOff) EXCEPT !.g_api = m1.g_api])

callNative(m, native, argc) ==
    IF Len(m.frames) + 1 = RECURSION_LIMIT
    THEN Fail(jsrRaise(m, "StackOverflowException", NoMsg))
    ELSE LET r == adjustArguments(m, m.objects[native], argc)
         IN  IF ~r.ok THEN r
             ELSE LET m1 == appendNativeFrame(r.vm, native)
                      oldModule == m1.module
                      apiStackOff == m1.apiStack
                      m2 == [m1 EXCEPT !.module = ModuleOf(m, native),
                                       !.apiStack = Top(m1).stack,
                                       !.g_api = m1.g_stack]
                      h == hostFunction(m2, native)
                  IN  IF ~h.ok
                      THEN Fail(nativeFailed(h.vm, oldModule, apiStackOff))
                      ELSE Ok(nativeReturned(h.vm, oldModule, apiStackOff))

\* faulty variant of isNonInstantiableBuiltin: Table and Userdata are forgotten
isNonInstantiableBuiltin_M(m, cls) ==
    cls \in {m.nullClass, m.funClass, m.modClass, m.stClass, m.clsClass}

isNonInstantiableBuiltin(m, cls) ==
    cls \in {m.nullClass, m.funClass, m.modClass, m.stClass, m.clsClass, m.tableClass, m.udataClass}

isInstatiableBuiltin(m, cls) ==
    cls \in {m.lstClass, m.tupClass, m.numClass, m.boolClass, m.strClass}

\* faulty variant of isBuiltinClass: only the non-instantiable classes count
isBuiltinClass_M(m, cls) == isNonInstantiableBuiltin(m, cls)

isBuiltinClass(m, cls) == isNonInstantiableBuiltin(m, cls) \/ isInstatiableBuiltin(m, cls)

RECURSIVE callValue(_, _, _)
callValue(m, callee, argc) ==
    IF IS_TYPE(m, callee, "closure") THEN callFunction(m, AS_OBJ(callee), argc)
    ELSE IF IS_TYPE(m, callee, "native") THEN callNative(m, AS_OBJ(callee), argc)
    ELSE IF IS_TYPE(m, callee, "boundmethod")
    THEN LET bm == ObjOf(m, callee)
             m1 == [m EXCEPT !.stack[m.sp - argc - 1] = bm.bound]
         IN  IF m.objects[bm.method].type = "closure"
             THEN callFunction(m1, bm.method, argc)
             ELSE callNative(m1, bm.method, argc)
    ELSE IF IS_TYPE(m, callee, "class")
    THEN LET cls == AS_OBJ(callee)
         IN  IF isNonInstantiableBuiltin(m, cls)
             THEN Fail(jsrRaise(m, "Exception", Msg("cannot_instantiate", "", cls, 0)))
             ELSE LET builtin == isInstatiableBuiltin(m, cls)
                      id == NextId(m)
                      m1 == IF builtin
                            THEN [m EXCEPT !.stack[m.sp - argc - 1] = NULL_VAL]
                            ELSE [alloc(m, newInstance(m, cls)) EXCEPT !.stack[m.sp - argc - 1] = OBJ_VAL(id)]
                  IN  IF hashTableGet(m.objects[cls].methods, "new")
                      THEN callValue(m1, m.objects[cls].methods["new"], argc)
                      ELSE IF argc # 0
                      THEN Fail(jsrRaise(m1, "TypeException", Msg("ctor_expected_0_args", "", cls, argc)))
                      ELSE Ok(m1)
    ELSE Fail(jsrRaise(m, "TypeException", Msg("not_callable", "", getClass(m, callee), 0)))

invokeMethod(m, cls, name, argc) ==
    IF ~hashTableGet(m.objects[cls].methods, name)
    THEN Fail(jsrRaise(m, "MethodException", Msg(name, "no_method", cls, 0)))
    ELSE callValue(m, m.objects[cls].methods[name], argc)

\* faulty variant of invokeValue: the class method is looked up before the instance field
invokeValue_M(m, name, argc) ==
    LET val == peekn(m, argc)
    IN  IF IS_TYPE(m, val, "inst")
        THEN LET inst == ObjOf(m, val)
             IN  IF hashTableGet(m.objects[inst.cls].methods, name)
                 THEN callValue(m, m.objects[inst.cls].methods[name], argc)
                 ELSE IF hashTableGet(inst.fields, name)
                 THEN callValue(m, inst.fields[name], argc)
                 ELSE invokeMethod(m, inst.cls, name, argc)
        ELSE invokeMethod(m, getClass(m, val), name, argc)

invokeValue(m, name, argc) ==
    LET val == peekn(m, argc)
    IN  IF IS_TYPE(m, val, "inst")
        THEN LET inst == ObjOf(m, val)
             IN  IF hashTableGet(inst.fields, name)
                 THEN callValue(m, inst.fields[name], argc)
                 ELSE invokeMethod(m, inst.cls, name, argc)
        ELSE IF IS_TYPE(m, val, "module")
        THEN LET mod == ObjOf(m, val)
             IN  IF hashTableGet(m.objects[m.modClass].methods, name)
                 THEN callValue(m, m.objects[m.modClass].methods[name], argc)
                 ELSE IF ~hashTableGet(mod.globals, name)
                 THEN Fail(jsrRaise(m, "NameException", Msg(name, "not_defined_in_module", AS_OBJ(val), 0)))
                 ELSE callValue(m, mod.globals[name], argc)
        ELSE invokeMethod(m, getClass(m, val), name, argc)

\* faulty variant of bindMethod: the receiver stays on the stack below the BoundMethod
bindMethod_M(m, cls, name) ==
    IF ~hashTableGet(m.objects[cls].methods, name)
    THEN Fail(m)
    ELSE LET id == NextId(m)
             boundMeth == [type |-> "boundmethod", cls |-> m.funClass,
                           bound |-> peek(m), method |-> AS_OBJ(m.objects[cls].methods[name])]
         IN  Ok(push(alloc(m, boundMeth), OBJ_VAL(id)))

bindMethod(m, cls, name) ==
    IF ~hashTableGet(m.objects[cls].methods, name)
    THEN Fail(m)
    ELSE LET id == NextId(m)
             boundMeth == [type |-> "boundmethod", cls |-> m.funClass,
                           bound |-> peek(m), method |-> AS_OBJ(m.objects[cls].methods[name])]
         IN  Ok(push(pop(alloc(m, boundMeth)), OBJ_VAL(id)))

getFieldFromValue(m, name) ==
    LET val == peek(m)
    IN  IF IS_TYPE(m, val, "inst")
        THEN LET inst == ObjOf(m, val)
             IN  IF ~hashTableGet(inst.fields, name)
                 THEN LET b == bindMethod(m, inst.cls, name)
                      IN  IF ~b.ok
                          THEN Fail(jsrRaise(m, "FieldException", Msg(name, "no_field", inst.cls, 0)))
                          ELSE b
                 ELSE Ok(push(pop(m), inst.fields[name]))
        ELSE IF IS_TYPE(m, val, "module")
        THEN LET mod == ObjOf(m, val)
             IN  IF ~hashTableGet(mod.globals, name)
                 THEN LET b == bindMethod(m, mod.cls, name)
                      IN  IF ~b.ok
                          THEN Fail(jsrRaise(m, "NameException", Msg(name, "not_defined_in_module", AS_OBJ(val), 0)))
                          ELSE b
                 ELSE Ok(push(pop(m), mod.globals[name]))
        ELSE LET b == bindMethod(m, getClass(m, val), name)
             IN  IF ~b.ok
                 THEN Fail(jsrRaise(m, "FieldException", Msg(name, "no_field", getClass(m, val), 0)))
                 ELSE b

setFieldOfValue(m, name) ==
    LET val == peek(m)
        m1 == pop(m)
    IN  IF IS_TYPE(m, val, "inst")
        THEN Ok([m1 EXCEPT !.objects[AS_OBJ(val)].fields = hashTablePut(@, name, peek(m1))])
        ELSE IF IS_TYPE(m, val, "module")
        THEN Ok([m1 EXCEPT !.objects[AS_OBJ(val)].globals = hashTablePut(@, name, peek(m1))])
        ELSE Fail(jsrRaise(m1, "FieldException", Msg(name, "no_field", getClass(m, val), 0)))

----------------------------------------------------------------------------
(* Handlers, unwinding, return *)

\* RESTORE_HANDLER(h, frame, cause, excVal), frame being the top frame
RESTORE_HANDLER(m, h, cause, excVal) ==
    LET n == Len(m.frames)
        m1 == [m EXCEPT !.frames[n].ip = h.address, !.sp = h.savesp]
        m2 == closeUpvalues(m1, m1.sp - 1)
        m3 == push(push(m2, excVal), NUM_VAL(cause))
    IN  [m3 EXCEPT !.g_hlog = Append(@, [id |-> h.id, cause |-> cause, val |-> excVal,
                                         frame |-> n, sp |-> m3.sp, ip |-> h.address])]

\* stRecordFrame: one record per frame the exception passes
stRecordFrame(m, st, frame) ==
    [m EXCEPT !.objects[st].records = Append(@, FrameName(m, frame))]

\* faulty variant of unwindLoop: the handler it resumes at stays installed
RECURSIVE unwindLoop_M(_, _, _)
unwindLoop_M(m, d, st) ==
    IF Len(m.frames) > d
    THEN LET frame == Top(m)
             m1 == stRecordFrame([m EXCEPT !.module = ModuleOf(m, frame.fn)], st, frame)
         IN  IF Len(frame.handlers) > 0
             THEN Ok(RESTORE_HANDLER(pop(m1), frame.handlers[Len(frame.handlers)],
                                     CAUSE_EXCEPT, peek(m1)))
             ELSE unwindLoop_M([closeUpvalues(m1, frame.stack) EXCEPT
                                    !.frames = SubSeq(@, 1, Len(@) - 1)], d, st)
    ELSE Fail(m)

RECURSIVE unwindLoop(_, _, _)
unwindLoop(m, d, st) ==
    IF Len(m.frames) > d
    THEN LET frame == Top(m)
             m1 == stRecordFrame([m EXCEPT !.module = ModuleOf(m, frame.fn)], st, frame)
         IN  IF Len(frame.handlers) > 0
             THEN LET exc == peek(m1)
                      h == frame.handlers[Len(frame.handlers)]
                      m2 == [pop(m1) EXCEPT !.frames[Len(m.frames)].handlers = SubSeq(@, 1, Len(@) - 1)]
                  IN  Ok(RESTORE_HANDLER(m2, h, CAUSE_EXCEPT, exc))
             ELSE unwindLoop([closeUpvalues(m1, frame.stack) EXCEPT
                                  !.frames = SubSeq(@, 1, Len(@) - 1)], d, st)
    ELSE Fail(m)

unwindStack(m, d) ==
    LET exception == ObjOf(m, peek(m))
        stackTrace == AS_OBJ(exception.fields["stacktrace"])
    IN  unwindLoop([m EXCEPT !.g_unw = @ + 1], d, stackTrace)

\* what one instruction leaves behind: the machine and where runEval is
Res(m, st) == [vm |-> m, st |-> st]
Continue(m) == Res(m, "run")

\* UNWIND_STACK(vm): unwind, then dispatch at the handler or return false
UNWIND_STACK(m) ==
    LET u == unwindStack(m, depth)
    IN  IF u.ok THEN Continue(u.vm) ELSE Res(u.vm, "false")

\* an operation that may fail (res is what it returned)
Checked(res) == IF res.ok THEN Continue(res.vm) ELSE UNWIND_STACK(res.vm)

\* faulty variant of opReturn: evaluation ends only when the last frame is popped
opReturn_M(m) ==
    LET ret == peek(m)
        n == Len(m.frames)
        frame == Top(m)
        hs == frame.handlers
        ens == {i \in 1..Len(hs) : hs[i].type = "ENSURE"}
    IN  IF ens # {}
        THEN LET k == CHOOSE i \in ens : \A j \in ens : j <= i
                 m1 == [pop(m) EXCEPT !.frames[n].handlers = SubSeq(hs, 1, k - 1)]
             IN  Continue(RESTORE_HANDLER(m1, hs[k], CAUSE_RETURN, ret))
        ELSE LET m1 == [pop(m) EXCEPT !.frames[n].handlers = <<>>]
                 m2 == closeUpvalues(m1, frame.stack)
                 m3 == push([m2 EXCEPT !.sp = frame.stack], ret)
                 m4 == [m3 EXCEPT !.frames = SubSeq(@, 1, n - 1)]
             IN  IF n - 1 = 0
                 THEN Res(m4, "true")
                 ELSE Continue([m4 EXCEPT !.module = ModuleOf(m4, Top(m4).fn)])

\* op_return: the return value is on top of the stack
\* faulty variant of opReturn: the current module stays that of the frame left
opReturn_R(m) ==
    LET ret == peek(m)
        n == Len(m.frames)
        frame == Top(m)
        hs == frame.handlers
        ens == {i \in 1..Len(hs) : hs[i].type = "ENSURE"}
    IN  IF ens # {}
        THEN LET k == CHOOSE i \in ens : \A j \in ens : j <= i
                 m1 == [pop(m) EXCEPT !.frames[n].handlers = SubSeq(hs, 1, k - 1)]
             IN  Continue(RESTORE_HANDLER(m1, hs[k], CAUSE_RETURN, ret))
        ELSE LET m1 == [pop(m) EXCEPT !.frames[n].handlers = <<>>]
                 m2 == closeUpvalues(m1, frame.stack)
                 m3 == push([m2 EXCEPT !.sp = frame.stack], ret)
                 m4 == [m3 EXCEPT !.frames = SubSeq(@, 1, n - 1)]
             IN  IF n - 1 = depth
                 THEN Res(m4, "true")
                 ELSE Continue(m4)

opReturn(m) ==
    LET ret == peek(m)
        n == Len(m.frames)
        frame == Top(m)
        hs == frame.handlers
        ens == {i \in 1..Len(hs) : hs[i].type = "ENSURE"}
    IN  IF ens # {}
        THEN LET k == CHOOSE i \in ens : \A j \in ens : j <= i
                 m1 == [pop(m) EXCEPT !.frames[n].handlers = SubSeq(hs, 1, k - 1)]
             IN  Continue(RESTORE_HANDLER(m1, hs[k], CAUSE_RETURN, ret))
        ELSE LET m1 == [pop(m) EXCEPT !.frames[n].handlers = <<>>]
                 m2 == closeUpvalues(m1, frame.stack)
                 m3 == push([m2 EXCEPT !.sp = frame.stack], ret)
                 m4 == [m3 EXCEPT !.frames = SubSeq(@, 1, n - 1)]
             IN  IF n - 1 = depth
                 THEN Res(m4, "true")
                 ELSE Continue([m4 EXCEPT !.module = ModuleOf(m4, Top(m4).fn)])

----------------------------------------------------------------------------
(* The dispatch loop: one action per opcode *)

\* the instruction at ip of the top frame, and the machine with ip moved past it
Code == FnOf(vm, Top(vm)).code
Instr == Code[Top(vm).ip]
Fetched == [vm EXCEPT !.frames[Len(vm.frames)].ip = @ + 1]
At(op) ==
    status = "run" /\ Len(vm.frames) > 0 /\ Top(vm).ip \in 1..Len(Code) /\ Instr.op = op

\* History of the captured variables.  A variable is named by its origin: the
\* serial of the frame that owns it and its slot.  g_var is the value most recently
\* written to it by its frame (SET_LOCAL) or through an upvalue (SET_UPVALUE);
\* g_dead are the variables whose scope has ended: the frame is gone, the slot
\* was popped, or a handler whose saved sp is at or below the slot was resumed.
UpvalueIds(m) == {i \in 1..Len(m.objects) : m.objects[i].type = "upvalue"}

Track(pre, post, ins) ==
    LET fresh == {i \in UpvalueIds(post) : i > Len(pre.objects)}
        known == DOMAIN pre.g_var
        local == [f |-> Top(pre).serial, a |-> Top(pre).stack + ins.a]
        target == IF ins.op = "SET_LOCAL" /\ local \in known \ pre.g_dead THEN {local}
                  ELSE IF ins.op = "SET_UPVALUE"
                  THEN {pre.objects[pre.objects[Top(pre).fn].upvalues[ins.a + 1]].g_org}
                  ELSE {}
        var == [o \in known \cup {post.objects[i].g_org : i \in fresh} |->
                  IF o \in target THEN peek(pre)
                  ELSE IF o \in known THEN pre.g_var[o]
                  ELSE post.stack[o.a]]
        active == {post.frames[i].serial : i \in 1..Len(post.frames)}
        resumed == {i \in 1..Len(post.g_hlog) : i > Len(pre.g_hlog)}
        dead == {o \in DOMAIN var :
                    \/ o.f \notin active
                    \/ o.a >= post.sp
                    \/ \E i \in resumed : o.a >= post.g_hlog[i].sp - 2}
    IN  [post EXCEPT !.g_var = var, !.g_dead = pre.g_dead \cup dead]

Commit(r) ==
    /\ vm' = Track(vm, r.vm, Instr)
    /\ status' = r.st
    /\ UNCHANGED <<prog, depth>>

OP_NULL == At("NULL") /\ Commit(Continue(push(Fetched, NULL_VAL)))

OP_GET_CONST == At("GET_CONST") /\ Commit(Continue(push(Fetched, Instr.v)))

OP_POP == At("POP") /\ Commit(Continue(pop(Fetched)))

OP_GET_LOCAL ==
    At("GET_LOCAL") /\ Commit(Continue(push(Fetched, vm.stack[Top(vm).stack + Instr.a])))

OP_SET_LOCAL ==
    At("SET_LOCAL") /\
    Commit(Continue([Fetched EXCEPT !.stack[Top(vm).stack + Instr.a] = peek(vm)]))

OP_JUMP ==
    At("JUMP") /\ Commit(Continue([Fetched EXCEPT !.frames[Len(vm.frames)].ip = @ + Instr.a]))

OP_JUMPF ==
    At("JUMPF") /\
    Commit(Continue(IF ~isValTrue(peek(vm))
                    THEN [pop(Fetched) EXCEPT !.frames[Len(vm.frames)].ip = @ + Instr.a]
                    ELSE pop(Fetched)))

\* OP_CALL_0 .. OP_CALL_10 and OP_CALL: argc is the operand
OP_CALL ==
    At("CALL") /\ Commit(Checked(callValue(Fetched, peekn(vm, Instr.a), Instr.a)))

\* OP_INVOKE_0 .. OP_INVOKE_10 and OP_INVOKE
OP_INVOKE ==
    At("INVOKE") /\ Commit(Checked(invokeValue(Fetched, Instr.s, Instr.a)))

OP_RETURN == At("RETURN") /\ Commit(opReturn(Fetched))

OP_SETUP ==
    /\ (At("SETUP_EXCEPT") \/ At("SETUP_ENSURE"))
    /\ LET n == Len(vm.frames)
           handler == [address |-> Fetched.frames[n].ip + Instr.a,
                       savesp |-> vm.sp,
                       type |-> IF Instr.op = "SETUP_ENSURE" THEN "ENSURE" ELSE "EXCEPT",
                       id |-> vm.g_hid + 1]
       IN  Commit(Continue([Fetched EXCEPT !.frames[n].handlers = Append(@, handler),
                                           !.g_hid = @ + 1]))

OP_END_TRY ==
    /\ At("END_TRY")
    /\ IF ~IS_NULL(peek2(vm))
       THEN LET cause == AS_NUM(peek(vm))
            IN  IF cause = CAUSE_EXCEPT THEN Commit(UNWIND_STACK(pop(Fetched)))
                ELSE Commit(opReturn(pop(Fetched)))
       ELSE Commit(Continue(Fetched))

OP_POP_HANDLER ==
    At("POP_HANDLER") /\
    Commit(Continue([Fetched EXCEPT !.frames[Len(vm.frames)].handlers = SubSeq(@, 1, Len(@) - 1)]))

\* faulty variant of OP_RAISE: an exception that has a StackTrace keeps it
OP_RAISE_M ==
    /\ At("RAISE")
    /\ LET exc == peek(vm)
       IN  IF ~isInstance(vm, exc, vm.excClass)
           THEN Commit(UNWIND_STACK(jsrRaise(Fetched, "TypeException", Msg("can_only_raise_exceptions", "", 0, 0))))
           ELSE IF hashTableGet(ObjOf(vm, exc).fields, "stacktrace")
           THEN Commit(UNWIND_STACK(Fetched))
           ELSE LET st == NextId(vm)
                    m1 == alloc(Fetched, [type |-> "stacktrace", cls |-> vm.stClass, records |-> <<>>])
                    m2 == [m1 EXCEPT !.objects[AS_OBJ(exc)].fields = hashTablePut(@, "stacktrace", OBJ_VAL(st))]
                IN  Commit(UNWIND_STACK(m2))

OP_RAISE ==
    /\ At("RAISE")
    /\ LET exc == peek(vm)
       IN  IF ~isInstance(vm, exc, vm.excClass)
           THEN Commit(UNWIND_STACK(jsrRaise(Fetched, "TypeException", Msg("can_only_raise_exceptions", "", 0, 0))))
           ELSE LET st == NextId(vm)
                    m1 == alloc(Fetched, [type |-> "stacktrace", cls |-> vm.stClass, records |-> <<>>])
                    m2 == [m1 EXCEPT !.objects[AS_OBJ(exc)].fields = hashTablePut(@, "stacktrace", OBJ_VAL(st))]
                IN  Commit(UNWIND_STACK(m2))

newClosure(m, fn) ==
    [type |-> "closure", cls |-> m.funClass, fn |-> fn,
     upvalues |-> [i \in 1..prog.fns[fn].upvaluec |-> 0]]

\* the capture loop of OP_CLOSURE over the descriptors caps[i..], c being the new closure
RECURSIVE captureAll(_, _, _, _)
captureAll(m, c, caps, i) ==
    IF i > Len(caps) THEN m
    ELSE IF caps[i].isLocal
    THEN LET r == captureUpvalue(Held(m, {c}), Top(m).stack + caps[i].index)
         IN  captureAll([r.vm EXCEPT !.objects[c].upvalues[i] = r.uv], c, caps, i + 1)
    ELSE captureAll([m EXCEPT !.objects[c].upvalues[i] =
                                  m.objects[Top(m).fn].upvalues[caps[i].index + 1]], c, caps, i + 1)

OP_CLOSURE ==
    /\ At("CLOSURE")
    /\ LET c == NextId(vm)
           m1 == push(alloc(Fetched, newClosure(vm, Instr.s)), OBJ_VAL(c))
       IN  Commit(Continue(captureAll(m1, c, Instr.caps, 1)))

OP_GET_UPVALUE ==
    At("GET_UPVALUE") /\
    Commit(Continue(push(Fetched, UpvalueRead(vm, vm.objects[Top(vm).fn].upvalues[Instr.a + 1]))))

OP_SET_UPVALUE ==
    At("SET_UPVALUE") /\
    Commit(Continue(UpvalueWrite(Fetched, vm.objects[Top(vm).fn].upvalues[Instr.a + 1], peek(vm))))

OP_CLOSE_UPVALUE ==
    At("CLOSE_UPVALUE") /\ Commit(Continue(pop(closeUpvalues(Fetched, vm.sp - 1))))

Globals(m) == m.objects[m.module].globals

OP_DEFINE_GLOBAL ==
    At("DEFINE_GLOBAL") /\
    Commit(Continue([pop(Fetched) EXCEPT !.objects[vm.module].globals = hashTablePut(@, Instr.s, peek(vm))]))

\* hashTableGet writes the value through its out parameter, here the slot *vm->sp++
OP_GET_GLOBAL ==
    /\ At("GET_GLOBAL")
    /\ IF hashTableGet(Globals(vm), Instr.s)
       THEN Commit(Continue(push(Fetched, Globals(vm)[Instr.s])))
       ELSE Commit(UNWIND_STACK(jsrRaise([Fetched EXCEPT !.sp = @ + 1], "NameException",
                                         Msg(Instr.s, "not_defined", 0, 0))))

\* faulty variant of opSetGlobal: the binding is made without looking for the name
opSetGlobal_M(m, name) ==
    Continue([m EXCEPT !.objects[m.module].globals = hashTablePut(@, name, peek(m))])

\* OP_SET_GLOBAL name.  hashTablePut stores the value and returns true when the
\* key was not in the table before
opSetGlobal(m, name) ==
    LET m1 == [m EXCEPT !.objects[m.module].globals = hashTablePut(@, name, peek(m))]
    IN  IF ~hashTableGet(Globals(m), name)
        THEN UNWIND_STACK(jsrRaise(m1, "NameException", Msg(name, "not_defined", 0, 0)))
        ELSE Continue(m1)

OP_SET_GLOBAL == At("SET_GLOBAL") /\ Commit(opSetGlobal(Fetched, Instr.s))

----------------------------------------------------------------------------
(* Tuples and lists *)

\* OP_NEW_TUPLE size: the Tuple is allocated, then filled with the popped elements
OP_NEW_TUPLE ==
    /\ At("NEW_TUPLE")
    /\ LET elems == [i \in 1..Instr.a |-> vm.stack[vm.sp - Instr.a + i - 1]]
           t == [type |-> "tuple", cls |-> vm.tupClass, arr |-> elems]
           m1 == alloc(Held(Fetched, ValueObjs({elems[i] : i \in 1..Instr.a})), t)
       IN  Commit(Continue(push([m1 EXCEPT !.sp = vm.sp - Instr.a], OBJ_VAL(NextId(vm)))))

OP_NEW_LIST ==
    At("NEW_LIST") /\
    Commit(Continue(push(alloc(Fetched, [type |-> "list", cls |-> vm.lstClass, arr |-> <<>>]),
                         OBJ_VAL(NextId(vm)))))

\* listAppend(vm, list, value), then the value is popped
OP_APPEND_LIST ==
    At("APPEND_LIST") /\
    Commit(Continue(pop([Fetched EXCEPT !.objects[AS_OBJ(peek2(vm))].arr = Append(@, peek(vm))])))

\* faulty variant of unpackObject: as many elements as targets are too few
unpackObject_M(m, o, n) ==
    LET arr == m.objects[o].arr
    IN  IF n >= Len(arr)
        THEN Fail(jsrRaise(m, "TypeException", Msg("too_little_values_to_unpack", "", 0, 0)))
        ELSE Ok(pushAll(m, [i \in 1..n |-> arr[i]]))

unpackObject(m, o, n) ==
    LET arr == m.objects[o].arr
    IN  IF n > Len(arr)
        THEN Fail(jsrRaise(m, "TypeException", Msg("too_little_values_to_unpack", "", 0, 0)))
        ELSE Ok(pushAll(m, [i \in 1..n |-> arr[i]]))

OP_UNPACK ==
    /\ At("UNPACK")
    /\ IF ~IS_TYPE(vm, peek(vm), "list") /\ ~IS_TYPE(vm, peek(vm), "tuple")
       THEN Commit(UNWIND_STACK(jsrRaise(Fetched, "TypeException",
                                         Msg("can_unpack_only_tuple_or_list", "", getClass(vm, peek(vm)), 0))))
       ELSE Commit(Checked(unpackObject(pop(Fetched), AS_OBJ(peek(vm)), Instr.a)))

----------------------------------------------------------------------------
(* Strings.  A String holds its bytes in data.  vm->strings is the interner: *)
(* it maps the bytes of every interned String to the object.                 *)

\* copyString(vm, str, length, true): the interned String with these bytes
copyString(m, data) ==
    IF data \in DOMAIN m.strings
    THEN [vm |-> m, str |-> m.strings[data]]
    ELSE LET id == NextId(m)
             m1 == alloc(m, [type |-> "string", cls |-> m.strClass, data |-> data])
         IN  [vm |-> [m1 EXCEPT !.strings = hashTablePut(@, data, id)], str |-> id]

\* allocateString(vm, length): a new String object with room for length bytes,
\* which the caller then fills; it is not looked up in, nor added to, the interner
allocateString(m, length) ==
    alloc(m, [type |-> "string", cls |-> m.strClass, data |-> [i \in 1..length |-> ""]])

stringConcatenate(m, s1, s2) ==
    LET d1 == m.objects[s1].data
        d2 == m.objects[s2].data
        length == Len(d1) + Len(d2)
        str == NextId(m)
        m1 == allocateString(Held(m, {s1, s2}), length)
    IN  [vm |-> [m1 EXCEPT !.objects[str].data =
                     [i \in 1..length |-> IF i <= Len(d1) THEN d1[i] ELSE d2[i - Len(d1)]]],
         str |-> str]

\* jsrCheckIndexNum: the index if it is within [0, max), else an IndexOutOfBound
\* exception is raised
jsrCheckIndexNum(m, i, max) ==
    IF i >= 0 /\ i < max THEN Ok(m)
    ELSE Fail(jsrRaise(m, "Exception", Msg("index_out_of_bound", "", i, max)))

\* model numbers are integers, so every number is an integer index
getSubscriptOfValue(m) ==
    LET arg == peek(m)
        operand == peek2(m)
    IN  IF IS_TYPE(m, operand, "string")
        THEN IF ~IS_NUM(arg)
             THEN Fail(jsrRaise(m, "TypeException", Msg("index_must_be_integer", "String", 0, 0)))
             ELSE LET str == ObjOf(m, operand)
                      c == jsrCheckIndexNum(m, AS_NUM(arg), Len(str.data))
                  IN  IF ~c.ok THEN c
                      ELSE LET r == copyString(pop(pop(m)), <<str.data[AS_NUM(arg) + 1]>>)
                           IN  Ok(push(r.vm, OBJ_VAL(r.str)))
        ELSE IF IS_TYPE(m, operand, "tuple") \/ IS_TYPE(m, operand, "list")
        THEN IF ~IS_NUM(arg)
             THEN Fail(jsrRaise(m, "TypeException", Msg("index_must_be_integer", "", 0, 0)))
             ELSE LET seq == ObjOf(m, operand)
                      c == jsrCheckIndexNum(m, AS_NUM(arg), Len(seq.arr))
                  IN  IF ~c.ok THEN c
                      ELSE Ok(push(pop(pop(m)), seq.arr[AS_NUM(arg) + 1]))
        ELSE invokeMethod(m, getClass(m, operand), "__get__", 1)

----------------------------------------------------------------------------
(* Operator overloads *)

\* vm->overloads: the method names of the overloadable operators
Forward(op) ==
    CASE op = "+" -> "__add__" [] op = "-" -> "__sub__" [] op = "*" -> "__mul__"
      [] op = "/" -> "__div__" [] op = "%" -> "__mod__" [] op = "==" -> "__eq__"
      [] op = "<" -> "__lt__" [] op = "<=" -> "__le__" [] op = ">" -> "__gt__"
      [] op = ">=" -> "__ge__"

\* the reverse overload an opcode passes; "" stands for OVERLOAD_SENTINEL
Reverse(op) ==
    CASE op = "+" -> "__radd__" [] op = "-" -> "__rsub__" [] op = "*" -> "__rmul__"
      [] op = "/" -> "__rdiv__" [] op = "%" -> "__rmod__" [] OTHER -> ""

\* faulty variant of callBinaryOverload: receiver and argument are not swapped for the
\* reverse overload
callBinaryOverload_M(m, op, overload, reverse) ==
    LET cls1 == getClass(m, peek2(m))
        cls2 == getClass(m, peek(m))
    IN  IF hashTableGet(m.objects[cls1].methods, overload)
        THEN callValue(m, m.objects[cls1].methods[overload], 1)
        ELSE IF reverse # "" /\ hashTableGet(m.objects[cls2].methods, reverse)
        THEN callValue(m, m.objects[cls2].methods[reverse], 1)
        ELSE Fail(jsrRaise(m, "TypeException", Msg("operator_not_defined", op, cls1, cls2)))

callBinaryOverload(m, op, overload, reverse) ==
    LET cls1 == getClass(m, peek2(m))
        cls2 == getClass(m, peek(m))
    IN  IF hashTableGet(m.objects[cls1].methods, overload)
        THEN callValue(m, m.objects[cls1].methods[overload], 1)
        ELSE LET m1 == IF reverse # ""
                       THEN [m EXCEPT !.stack[m.sp - 1] = m.stack[m.sp - 2],
                                      !.stack[m.sp - 2] = m.stack[m.sp - 1]]
                       ELSE m
             IN  IF reverse # "" /\ hashTableGet(m.objects[cls2].methods, reverse)
                 THEN callValue(m1, m.objects[cls2].methods[reverse], 1)
                 ELSE Fail(jsrRaise(m1, "TypeException", Msg("operator_not_defined", op, cls1, cls2)))

\* the primitive operators on two numbers (model numbers are integers; programs
\* divide only where the quotient is exact)
Primitive(op, a, b) ==
    CASE op = "+" -> NUM_VAL(a + b)
      [] op = "-" -> NUM_VAL(a - b)
      [] op = "*" -> NUM_VAL(a * b)
      [] op = "/" -> NUM_VAL(a \div b)
      [] op = "%" -> NUM_VAL(a % b)
      [] op = "<" -> BOOL_VAL(a < b)
      [] op = "<=" -> BOOL_VAL(a <= b)
      [] op = ">" -> BOOL_VAL(a > b)
      [] op = ">=" -> BOOL_VAL(a >= b)

\* BINARY_OVERLOAD(op, overload, reverse)
BINARY_OVERLOAD(m, op, overload, reverse) == Checked(callBinaryOverload(m, op, overload, reverse))

\* BINARY(type, op, overload, reverse)
BINARY(m, op, overload, reverse) ==
    IF IS_NUM(peek(m)) /\ IS_NUM(peek2(m))
    THEN Continue(push(pop(pop(m)), Primitive(op, AS_NUM(peek2(m)), AS_NUM(peek(m)))))
    ELSE BINARY_OVERLOAD(m, op, overload, reverse)

OP_ADD ==
    /\ At("ADD")
    /\ IF IS_NUM(peek(vm)) /\ IS_NUM(peek2(vm))
       THEN Commit(Continue(push(pop(pop(Fetched)), NUM_VAL(AS_NUM(peek2(vm)) + AS_NUM(peek(vm))))))
       ELSE IF IS_STRING(vm, peek(vm)) /\ IS_STRING(vm, peek2(vm))
       THEN LET conc == stringConcatenate(Fetched, AS_OBJ(peek2(vm)), AS_OBJ(peek(vm)))
            IN  Commit(Continue(push(pop(pop(conc.vm)), OBJ_VAL(conc.str))))
       ELSE Commit(BINARY_OVERLOAD(Fetched, "+", "__add__", "__radd__"))

\* OP_SUB, OP_MUL, OP_DIV and OP_MOD: the operand is the operator
ArithOps == {"-", "*", "/", "%"}
OP_ARITH ==
    At("ARITH") /\ Commit(BINARY(Fetched, Instr.s, Forward(Instr.s), Reverse(Instr.s)))

\* OP_LT, OP_LE, OP_GT and OP_GE: no reverse overload
CompareOps == {"<", "<=", ">", ">="}
OP_COMPARE ==
    At("COMPARE") /\ Commit(BINARY(Fetched, Instr.s, Forward(Instr.s), ""))

OP_EQ ==
    /\ At("EQ")
    /\ IF IS_NUM(peek2(vm)) \/ IS_NULL(peek2(vm)) \/ IS_BOOL(peek2(vm))
       THEN Commit(Continue(push(pop(pop(Fetched)), BOOL_VAL(valueEquals(peek(vm), peek2(vm))))))
       ELSE Commit(BINARY_OVERLOAD(Fetched, "==", "__eq__", ""))

----------------------------------------------------------------------------
(* Imports.  import.c is not part of the sources at hand: importModule and   *)
(* getModule follow the import subsystem section of the specification.       *)

\* the modules a source file can be found for: those the program has a top-level
\* Function for (the Function named like its module)
ModuleFiles == {n \in DOMAIN prog.fns : prog.fns[n].module = n}

getModule(m, name) == m.modules[name]

\* importModule: for a registered name push null; else resolve and compile the file,
\* register a new Module with empty globals and leave the top-level Function on the
\* stack; false when no file is found
importModule(m, name) ==
    IF name \in DOMAIN m.modules THEN Ok(push(m, NULL_VAL))
    ELSE IF name \notin ModuleFiles THEN Fail(m)
    ELSE LET mod == NextId(m)
             m1 == alloc(m, [type |-> "module", cls |-> m.modClass, name |-> name,
                             globals |-> EmptyTable])
             fn == NextId(m1)
             m2 == alloc(m1, [type |-> "function", cls |-> m.funClass, fn |-> name])
         IN  Ok(push([m2 EXCEPT !.modules = hashTablePut(@, name, mod)], OBJ_VAL(fn)))

\* faulty variant of opImport: the module is bound only when it is imported the first time
opImport_M(m, name) ==
    LET r == importModule(m, name)
    IN  IF ~r.ok THEN UNWIND_STACK(jsrRaise(r.vm, "ImportException", Msg(name, "cannot_load", 0, 0)))
        ELSE IF ~valueEquals(peek(r.vm), NULL_VAL)
        THEN LET m1 == [r.vm EXCEPT !.objects[r.vm.module].globals =
                                       hashTablePut(@, name, OBJ_VAL(getModule(r.vm, name)))]
                 c == NextId(m1)
                 m2 == alloc(m1, newClosure(m1, ObjOf(m1, peek(m1)).fn))
                 m3 == [m2 EXCEPT !.stack[m2.sp - 1] = OBJ_VAL(c)]
             IN  Continue(callFunction(m3, c, 0).vm)
        ELSE Continue(r.vm)

\* OP_IMPORT name
opImport(m, name) ==
    LET r == importModule(m, name)
    IN  IF ~r.ok THEN UNWIND_STACK(jsrRaise(r.vm, "ImportException", Msg(name, "cannot_load", 0, 0)))
        ELSE LET m1 == [r.vm EXCEPT !.objects[r.vm.module].globals =
                                       hashTablePut(@, name, OBJ_VAL(getModule(r.vm, name)))]
             IN  IF ~valueEquals(peek(m1), NULL_VAL)
                 THEN LET c == NextId(m1)
                          m2 == alloc(m1, newClosure(m1, ObjOf(m1, peek(m1)).fn))
                          m3 == [m2 EXCEPT !.stack[m2.sp - 1] = OBJ_VAL(c)]
                      IN  Continue(callFunction(m3, c, 0).vm)
                 ELSE Continue(m1)

OP_IMPORT == At("IMPORT") /\ Commit(opImport(Fetched, Instr.s))

\* faulty variant of bindImport: IMPORT_FROM binds the module like IMPORT
bindImport_M(m, op, name, alias) ==
    CASE op = "IMPORT_AS" ->
           [m EXCEPT !.objects[m.module].globals = hashTablePut(@, alias, OBJ_VAL(getModule(m, name)))]
      [] OTHER ->
           [m EXCEPT !.objects[m.module].globals = hashTablePut(@, name, OBJ_VAL(getModule(m, name)))]

\* the binding the three import opcodes make in the globals of the importing
\* module: IMPORT under the module's name, IMPORT_AS under the alias, IMPORT_FROM none
bindImport(m, op, name, alias) ==
    CASE op = "IMPORT" ->
           [m EXCEPT !.objects[m.module].globals = hashTablePut(@, name, OBJ_VAL(getModule(m, name)))]
      [] op = "IMPORT_AS" ->
           [m EXCEPT !.objects[m.module].globals = hashTablePut(@, alias, OBJ_VAL(getModule(m, name)))]
      [] OTHER -> m

\* OP_IMPORT_AS name alias and OP_IMPORT_FROM name
opImportAs(m, op, name, alias) ==
    LET r == importModule(m, name)
    IN  IF ~r.ok THEN UNWIND_STACK(jsrRaise(r.vm, "ImportException", Msg(name, "cannot_load", 0, 0)))
        ELSE LET m1 == bindImport(r.vm, op, name, alias)
             IN  IF ~valueEquals(peek(m1), NULL_VAL)
                 THEN LET c == NextId(m1)
                          m2 == alloc(m1, newClosure(m1, ObjOf(m1, peek(m1)).fn))
                          m3 == [m2 EXCEPT !.stack[m2.sp - 1] = OBJ_VAL(c)]
                      IN  Continue(callFunction(m3, c, 0).vm)
                 ELSE Continue(m1)

OP_IMPORT_AS == At("IMPORT_AS") /\ Commit(opImportAs(Fetched, "IMPORT_AS", Instr.s, Instr.t))

OP_IMPORT_FROM == At("IMPORT_FROM") /\ Commit(opImportAs(Fetched, "IMPORT_FROM", Instr.s, Instr.s))

\* the names of the programs whose first character is an underscore
UnderscoreNames == {"_h", "__string__"}

\* hashTableImportNames: every entry of from whose key does not begin with an
\* underscore is put in t
hashTableImportNames(t, from) ==
    hashTableMerge(t, [n \in DOMAIN from \ UnderscoreNames |-> from[n]])

\* faulty variant of opImportName: a name the module does not define is bound to null
opImportName_M(m, module, n) ==
    LET mod == m.objects[getModule(m, module)]
    IN  IF n = "*"
        THEN Continue([m EXCEPT !.objects[m.module].globals = hashTableImportNames(@, mod.globals)])
        ELSE Continue([m EXCEPT !.objects[m.module].globals =
                           hashTablePut(@, n, IF hashTableGet(mod.globals, n) THEN mod.globals[n]
                                              ELSE NULL_VAL)])

\* OP_IMPORT_NAME module name
opImportName(m, module, n) ==
    LET mod == m.objects[getModule(m, module)]
    IN  IF n = "*"
        THEN Continue([m EXCEPT !.objects[m.module].globals = hashTableImportNames(@, mod.globals)])
        ELSE IF ~hashTableGet(mod.globals, n)
        THEN UNWIND_STACK(jsrRaise(m, "NameException", Msg(n, "not_defined_in_module", getModule(m, module), 0)))
        ELSE Continue([m EXCEPT !.objects[m.module].globals = hashTablePut(@, n, mod.globals[n])])

OP_IMPORT_NAME == At("IMPORT_NAME") /\ Commit(opImportName(Fetched, Instr.s, Instr.t))

\* faulty variant of createClass: the new class starts with an empty method table
createClass_M(m, name, superCls) ==
    LET id == NextId(m)
        cls == [type |-> "class", cls |-> m.clsClass, name |-> name, superCls |-> superCls,
                methods |-> EmptyTable]
    IN  push(alloc(Held(m, {superCls}), cls), OBJ_VAL(id))

createClass(m, name, superCls) ==
    LET id == NextId(m)
        cls == [type |-> "class", cls |-> m.clsClass, name |-> name, superCls |-> superCls,
                methods |-> hashTableMerge(EmptyTable, m.objects[superCls].methods)]
    IN  push(alloc(Held(m, {superCls}), cls), OBJ_VAL(id))

OP_NEW_CLASS == At("NEW_CLASS") /\ Commit(Continue(createClass(Fetched, Instr.s, vm.objClass)))

OP_NEW_SUBCLASS ==
    /\ At("NEW_SUBCLASS")
    /\ IF ~IS_TYPE(vm, peek(vm), "class")
       THEN Commit(UNWIND_STACK(jsrRaise(Fetched, "TypeException", Msg("superclass_must_be_a_class", "", 0, 0))))
       ELSE LET cls == AS_OBJ(peek(vm))
            IN  IF isBuiltinClass(vm, cls)
                THEN Commit(UNWIND_STACK(jsrRaise(pop(Fetched), "TypeException",
                                                  Msg("cannot_subclass_builtin", "", cls, 0))))
                ELSE Commit(Continue(createClass(pop(Fetched), Instr.s, cls)))

\* consts.arr[0] of the method's Function is kept in vm.superConst, by Function
OP_DEF_METHOD ==
    /\ At("DEF_METHOD")
    /\ LET cls == AS_OBJ(peek2(vm))
           fn == ObjOf(vm, peek(vm)).fn
       IN  Commit(Continue([pop(Fetched) EXCEPT
               !.superConst = hashTablePut(@, fn, OBJ_VAL(vm.objects[cls].superCls)),
               !.objects[cls].methods = hashTablePut(@, Instr.s, peek(vm))]))

\* OP_SUPER_0 .. OP_SUPER_10 and OP_SUPER: the superclass is consts.arr[0] of the
\* Function of the running method
OP_SUPER ==
    At("SUPER") /\
    Commit(Checked(invokeMethod(Fetched, AS_OBJ(vm.superConst[FrameName(vm, Top(vm))]), Instr.s, Instr.a)))

OP_SUBSCR_GET == At("SUBSCR_GET") /\ Commit(Checked(getSubscriptOfValue(Fetched)))

OP_GET_FIELD == At("GET_FIELD") /\ Commit(Checked(getFieldFromValue(Fetched, Instr.s)))

OP_SET_FIELD == At("SET_FIELD") /\ Commit(Checked(setFieldOfValue(Fetched, Instr.s)))

----------------------------------------------------------------------------
(* Compiled programs.  An instruction is a record: op, and its operands a   *)
(* (a number: slot, argc, jump offset relative to the next instruction), s  *)
(* (a name of the constant pool), v (a constant), caps (upvalue captures).  *)

\* the classes of the core module, in the order jsrNewVM creates them
ClassNames ==
    <<"Class", "Object", "String", "Boolean", "List", "Number", "Function", "Module", "Null",
      "StackTrace", "Tuple", "Exception", "Table", "Userdata", "TypeException", "NameException",
      "FieldException", "MethodException", "ImportException", "StackOverflowException">>

\* the objects that follow them are the modules __core__ and __main__, the closure
\* of the main function and the native the host calls from
MainClosure == Len(ClassNames) + 3
HostNative == Len(ClassNames) + 4

\* the String constants of the programs, interned when the code was compiled
StrConsts == <<<<"a">>, <<"b">>, <<"a", "b">>>>
StrConst(data) == OBJ_VAL(Len(ClassNames) + 4 + CHOOSE i \in 1..Len(StrConsts) : StrConsts[i] = data)
InitStrings == [d \in {StrConsts[i] : i \in 1..Len(StrConsts)} |-> AS_OBJ(StrConst(d))]

\* the Native constants of the programs, named by their host function: ret takes one
\* argument and returns it plus 37, fail takes none and raises, new is the varargs
\* constructor of the instantiable built-in classes, grow and growfail make the
\* operand stack grow before the one returns null and the other raises
NativeFns == <<"ret", "fail", "new", "str", "grow", "growfail">>
NativeConst(fn) ==
    OBJ_VAL(Len(ClassNames) + 4 + Len(StrConsts) + CHOOSE i \in 1..Len(NativeFns) : NativeFns[i] = fn)

I(op) == [op |-> op]
IA(op, a) == [op |-> op, a |-> a]
IS(op, s) == [op |-> op, s |-> s]
ISA(op, s, a) == [op |-> op, s |-> s, a |-> a]
ISS(op, s, t) == [op |-> op, s |-> s, t |-> t]
IV(x) == [op |-> "GET_CONST", v |-> x]
ICl(fn, caps) == [op |-> "CLOSURE", s |-> fn, caps |-> caps]
Cap(isLocal, index) == [isLocal |-> isLocal, index |-> index]

\* an ObjFunction: FnCommon, upvalue count and bytecode
Fun(name, argsCount, defaults, vararg, upvaluec, code) ==
    [name |-> name, argsCount |-> argsCount, defaultc |-> Len(defaults), defaults |-> defaults,
     vararg |-> vararg, upvaluec |-> upvaluec, module |-> "__main__", code |-> code]

\* try body [except ...] [ensure ...] end, compiled as the compiler does: the handler
\* block and the fall-through path meet at END_TRY with the two hidden locals
\* (.exception at slot h, .cause at h + 1) on the stack; an except clause that
\* handles the exception clears .exception
TryStmt(level, body, h) ==
    IF level = "ensure"
    THEN <<IA("SETUP_ENSURE", Len(body) + 3)>> \o body
         \o <<I("POP_HANDLER"), I("NULL"), I("NULL"), I("END_TRY"), I("POP"), I("POP")>>
    ELSE LET H == IF level = "except_handle"
                  THEN <<I("NULL"), IA("SET_LOCAL", h), I("POP")>>
                  ELSE <<>>
         IN  <<IA("SETUP_EXCEPT", Len(body) + 4)>> \o body
             \o <<I("POP_HANDLER"), I("NULL"), I("NULL"), IA("JUMP", Len(H))>> \o H
             \o <<I("END_TRY"), I("POP"), I("POP")>>

RECURSIVE TryNest(_, _, _)
TryNest(levels, body, h) ==
    IF levels = <<>> THEN body
    ELSE TryStmt(Head(levels), TryNest(Tail(levels), body, h), h)

RaiseCode == <<IS("GET_GLOBAL", "Exception"), IA("CALL", 0), I("RAISE")>>

BodyCode(b) ==
    CASE b = "ret_null" -> <<I("NULL"), I("RETURN")>>
      [] b = "ret_num" -> <<IV(NUM_VAL(7)), I("RETURN")>>
      [] b = "raise" -> RaiseCode
      [] b = "call_raise" -> <<ICl("g", <<>>), IA("CALL", 0), I("POP")>>
      [] OTHER -> <<>>

\* main calls f; f is a nest of try statements around the body, then return 9
TryProgram(levels, body) ==
    [kind |-> "try",
     p |-> [levels |-> levels, body |-> body],
     fns |-> [n \in {"main", "f", "g"} |->
                CASE n = "main" -> Fun(n, 0, <<>>, FALSE, 0, <<ICl("f", <<>>), IA("CALL", 0), I("RETURN")>>)
                  [] n = "f" -> Fun(n, 0, <<>>, FALSE, 0,
                                    TryNest(levels, BodyCode(body), 1) \o <<IV(NUM_VAL(9)), I("RETURN")>>)
                  [] OTHER -> Fun(n, 0, <<>>, FALSE, 0, RaiseCode)]]

\* Closures over one local.  f declares x (slot 1) and makes two closures over it,
\* inc (x = x + 1) and get (return x), kept in the globals a and b; they capture x
\* directly, or through the closure mk that captured it (outer capture).  f may then
\* run a try statement, assigns x, calls inc, reads x and leaves its scope by a
\* return, by the end of the block that declares x, or by a raise.  main calls f,
\* then inc, and returns what get returns.
MakeCode(isLocal, index) ==
    <<ICl("inc", <<Cap(isLocal, index)>>), IS("DEFINE_GLOBAL", "a"),
      ICl("get", <<Cap(isLocal, index)>>), IS("DEFINE_GLOBAL", "b")>>

UpvCode(via, mid, exit) ==
    <<IV(NUM_VAL(1))>>
    \o (IF via = "direct" THEN MakeCode(TRUE, 1)
        ELSE <<ICl("mk", <<Cap(TRUE, 1)>>), IA("CALL", 0), I("POP")>>)
    \o (IF mid = "try" THEN TryStmt("except_handle", RaiseCode, 2) ELSE <<>>)
    \o <<IV(NUM_VAL(2)), IA("SET_LOCAL", 1), I("POP"),
          IS("GET_GLOBAL", "a"), IA("CALL", 0), I("POP"),
          IA("GET_LOCAL", 1), I("POP")>>
    \o (CASE exit = "return" -> <<I("NULL"), I("RETURN")>>
          [] exit = "block" -> <<I("CLOSE_UPVALUE"), I("NULL"), I("RETURN")>>
          [] OTHER -> RaiseCode)

UpvMainCode ==
    TryStmt("except_handle", <<ICl("f", <<>>), IA("CALL", 0), I("POP")>>, 1)
    \o <<IS("GET_GLOBAL", "a"), IA("CALL", 0), I("POP"),
          IS("GET_GLOBAL", "b"), IA("CALL", 0), I("RETURN")>>

UpvProgram(via, mid, exit) ==
    [kind |-> "upv",
     p |-> [via |-> via, mid |-> mid, exit |-> exit],
     fns |-> [n \in {"main", "f", "mk", "inc", "get"} |->
                CASE n = "main" -> Fun(n, 0, <<>>, FALSE, 0, UpvMainCode)
                  [] n = "f" -> Fun(n, 0, <<>>, FALSE, 0, UpvCode(via, mid, exit))
                  [] n = "mk" -> Fun(n, 0, <<>>, FALSE, 1, MakeCode(FALSE, 0) \o <<I("NULL"), I("RETURN")>>)
                  [] n = "inc" -> Fun(n, 0, <<>>, FALSE, 1,
                                      <<IA("GET_UPVALUE", 0), IV(NUM_VAL(1)), I("ADD"),
                                        IA("SET_UPVALUE", 0), I("POP"), I("NULL"), I("RETURN")>>)
                  [] OTHER -> Fun(n, 0, <<>>, FALSE, 1, <<IA("GET_UPVALUE", 0), I("RETURN")>>)]]

\* Closures over several locals.  f declares x, y and z (slots 1 to 3, values 1 to
\* 3) and makes one closure get for each slot of order, in that order, keeping the
\* last one in the global b; it may then run a try statement, and leaves by a
\* return or by the end of the block that declares z.  main calls f and b.
CaptureOrders ==
    {o \in [1..2 -> 1..3] \cup [1..3 -> 1..3] : Len(o) = 2 \/ {o[i] : i \in 1..3} = 1..3}

CapturesCode(order, mid, exit) ==
    <<IV(NUM_VAL(1)), IV(NUM_VAL(2)), IV(NUM_VAL(3))>>
    \o [i \in 1..2 * Len(order) |->
          IF i % 2 = 1 THEN ICl("get", <<Cap(TRUE, order[(i + 1) \div 2])>>)
          ELSE IS("DEFINE_GLOBAL", "b")]
    \o (IF mid = "try" THEN TryStmt("except_handle", RaiseCode, 4) ELSE <<>>)
    \o (IF exit = "block" THEN <<I("CLOSE_UPVALUE"), IS("GET_GLOBAL", "b"), IA("CALL", 0), I("POP")>>
        ELSE <<>>)
    \o <<I("NULL"), I("RETURN")>>

CapturesProgram(order, mid, exit) ==
    [kind |-> "caps",
     p |-> [order |-> order, mid |-> mid, exit |-> exit],
     fns |-> [n \in {"main", "f", "get"} |->
                CASE n = "main" -> Fun(n, 0, <<>>, FALSE, 0,
                                       <<ICl("f", <<>>), IA("CALL", 0), I("POP"),
                                         IS("GET_GLOBAL", "b"), IA("CALL", 0), I("RETURN")>>)
                  [] n = "f" -> Fun(n, 0, <<>>, FALSE, 0, CapturesCode(order, mid, exit))
                  [] OTHER -> Fun(n, 0, <<>>, FALSE, 1, <<IA("GET_UPVALUE", 0), I("RETURN")>>)]]

\* Calls with every argument count.  f has n parameters, the last d of them with
\* the default values 20 .. 20 + d - 1, and may be varargs; main calls it with the
\* argc arguments 11 .. 10 + argc.
ArgVal(i) == NUM_VAL(10 + i)
DefaultVal(j) == NUM_VAL(20 + j)

ArgsMainCode(argc) ==
    <<ICl("f", <<>>)>> \o [i \in 1..argc |-> IV(ArgVal(i))] \o <<IA("CALL", argc), I("RETURN")>>

\* main calls the native ret (one parameter) or new (no parameter, varargs) with
\* the argc arguments 11 .. 10 + argc
NativeArgsProgram(fn, argc) ==
    [kind |-> "nargs",
     p |-> [fn |-> fn, argc |-> argc],
     fns |-> [name \in {"main"} |->
                Fun(name, 0, <<>>, FALSE, 0,
                    <<IV(NativeConst(fn))>> \o [i \in 1..argc |-> IV(ArgVal(i))]
                    \o <<IA("CALL", argc), I("RETURN")>>)]]

ArgsProgram(n, d, vararg, argc) ==
    [kind |-> "args",
     p |-> [n |-> n, d |-> d, vararg |-> vararg, argc |-> argc],
     fns |-> [name \in {"main", "f"} |->
                IF name = "main" THEN Fun(name, 0, <<>>, FALSE, 0, ArgsMainCode(argc))
                ELSE Fun(name, n, [j \in 1..d |-> DefaultVal(j - 1)], vararg, 0,
                         <<I("NULL"), I("RETURN")>>)]]

\* Field against method.  main declares the class A, with or without the method m
\* (which returns 100), makes an instance, may set its field m to a closure (which
\* returns 200) or to the number 5, and then reads inst.m or invokes inst.m().
FieldMainCode(fieldKind, hasMethod, use) ==
    <<IS("NEW_CLASS", "A")>>
    \o (IF hasMethod THEN <<ICl("meth", <<>>), IS("DEF_METHOD", "m")>> ELSE <<>>)
    \o <<IS("DEFINE_GLOBAL", "A"), IS("GET_GLOBAL", "A"), IA("CALL", 0)>>
    \o (CASE fieldKind = "closure" -> <<ICl("fld", <<>>), IA("GET_LOCAL", 1), IS("SET_FIELD", "m"), I("POP")>>
          [] fieldKind = "num" -> <<IV(NUM_VAL(5)), IA("GET_LOCAL", 1), IS("SET_FIELD", "m"), I("POP")>>
          [] OTHER -> <<>>)
    \o <<IA("GET_LOCAL", 1)>>
    \o (IF use = "access" THEN <<IS("GET_FIELD", "m")>> ELSE <<ISA("INVOKE", "m", 0)>>)
    \o <<I("RETURN")>>

FieldProgram(fieldKind, hasMethod, use) ==
    [kind |-> "field",
     p |-> [fieldKind |-> fieldKind, hasMethod |-> hasMethod, use |-> use],
     fns |-> [n \in {"main", "meth", "fld"} |->
                CASE n = "main" -> Fun(n, 0, <<>>, FALSE, 0, FieldMainCode(fieldKind, hasMethod, use))
                  [] n = "meth" -> Fun(n, 0, <<>>, FALSE, 0, <<IV(NUM_VAL(100)), I("RETURN")>>)
                  [] OTHER -> Fun(n, 0, <<>>, FALSE, 0, <<IV(NUM_VAL(200)), I("RETURN")>>)]]

\* Binary operators.  main evaluates left op right.  An operand is the number 6
\* (left) or 3 (right), the string "a" (left) or "b" (right), or an instance: of A
\* on the left, A1 meaning that A defines the forward method of op (fwd); of B on the
\* right, B1 meaning that B defines the reverse method of op (rev) or, for an
\* operator without reverse form, the forward one.
LeftNumber == NUM_VAL(6)
RightNumber == NUM_VAL(3)

OperatorInstr(op) ==
    IF op = "+" THEN I("ADD")
    ELSE IF op = "==" THEN I("EQ")
    ELSE IF op \in ArithOps THEN IS("ARITH", op)
    ELSE IS("COMPARE", op)

DeclareClass(name, methods) ==
    <<IS("NEW_CLASS", name)>> \o methods \o <<IS("DEFINE_GLOBAL", name)>>

OperandCode(kind, number, string) ==
    CASE kind = "num" -> <<IV(number)>>
      [] kind = "str" -> <<IV(StrConst(string))>>
      [] kind \in {"A0", "A1"} -> <<IS("GET_GLOBAL", "A"), IA("CALL", 0)>>
      [] OTHER -> <<IS("GET_GLOBAL", "B"), IA("CALL", 0)>>

OpsMainCode(op, lk, rk) ==
    (IF lk \in {"A0", "A1"}
     THEN DeclareClass("A", IF lk = "A1" THEN <<ICl("fwd", <<>>), IS("DEF_METHOD", Forward(op))>> ELSE <<>>)
     ELSE <<>>)
    \o (IF rk \in {"B0", "B1"}
        THEN DeclareClass("B", IF rk = "B1"
                               THEN <<ICl("rev", <<>>),
                                      IS("DEF_METHOD", IF Reverse(op) # "" THEN Reverse(op) ELSE Forward(op))>>
                               ELSE <<>>)
        ELSE <<>>)
    \o OperandCode(lk, LeftNumber, <<"a">>) \o OperandCode(rk, RightNumber, <<"b">>)
    \o <<OperatorInstr(op), I("RETURN")>>

OpsProgram(op, lk, rk) ==
    [kind |-> "ops",
     p |-> [op |-> op, lk |-> lk, rk |-> rk],
     fns |-> [n \in {"main", "fwd", "rev"} |->
                CASE n = "main" -> Fun(n, 0, <<>>, FALSE, 0, OpsMainCode(op, lk, rk))
                  [] n = "fwd" -> Fun(n, 1, <<>>, FALSE, 0, <<IV(NUM_VAL(100)), I("RETURN")>>)
                  [] OTHER -> Fun(n, 1, <<>>, FALSE, 0, <<IV(NUM_VAL(200)), I("RETURN")>>)]]

\* Strings.  main evaluates two string expressions, each the constant "ab", the
\* concatenation "a" + "b" or the subscript "ab"[0], and returns the first.
StringExprCode(e) ==
    CASE e = "const" -> <<IV(StrConst(<<"a", "b">>))>>
      [] e = "concat" -> <<IV(StrConst(<<"a">>)), IV(StrConst(<<"b">>)), I("ADD")>>
      [] OTHER -> <<IV(StrConst(<<"a", "b">>)), IV(NUM_VAL(0)), I("SUBSCR_GET")>>

StrProgram(e1, e2) ==
    [kind |-> "str",
     p |-> [e1 |-> e1, e2 |-> e2],
     fns |-> [n \in {"main"} |->
                Fun(n, 0, <<>>, FALSE, 0,
                    StringExprCode(e1) \o StringExprCode(e2) \o <<I("POP"), I("RETURN")>>)]]

\* Imports.  main imports up to MaxImports modules among m1, m2 and nofile (which no file
\* exists for); the top-level code of m1 defines a global and may import m2 or m1
\* itself, that of m2 may import m1.
ImportCode(name) == IF name = "none" THEN <<>> ELSE <<IS("IMPORT", name), I("POP")>>

RECURSIVE ImportAll(_)
ImportAll(names) ==
    IF names = <<>> THEN <<>> ELSE ImportCode(Head(names)) \o ImportAll(Tail(names))

TopLevel(module, inner) ==
    [Fun(module, 0, <<>>, FALSE, 0,
         <<IV(NUM_VAL(1)), IS("DEFINE_GLOBAL", "v")>> \o ImportCode(inner) \o <<I("NULL"), I("RETURN")>>)
     EXCEPT !.module = module]

ImportProgram(names, in1, in2) ==
    [kind |-> "imp",
     p |-> [names |-> names, in1 |-> in1, in2 |-> in2],
     fns |-> [n \in {"main", "m1", "m2"} |->
                CASE n = "main" -> Fun(n, 0, <<>>, FALSE, 0, ImportAll(names) \o <<I("NULL"), I("RETURN")>>)
                  [] n = "m1" -> TopLevel(n, in1)
                  [] OTHER -> TopLevel(n, in2)]]

\* Names of a module.  main imports m1 and then calls m1.name(), by INVOKE or by
\* GET_FIELD followed by CALL; name is __string__, a method of the Module class, or
\* f, which is not; the top-level code of m1 defines name as a function or does not.
ModuleNameCode(name, use) ==
    <<IS("IMPORT", "m1"), I("POP"), IS("GET_GLOBAL", "m1")>>
    \o (IF use = "access" THEN <<IS("GET_FIELD", name), IA("CALL", 0)>> ELSE <<ISA("INVOKE", name, 0)>>)
    \o <<I("RETURN")>>

ModuleNameProgram(name, defined, use) ==
    [kind |-> "modname",
     p |-> [name |-> name, defined |-> defined, use |-> use],
     fns |-> [n \in {"main", "m1", "mf"} |->
                CASE n = "main" -> Fun(n, 0, <<>>, FALSE, 0, ModuleNameCode(name, use))
                  [] n = "m1" ->
                       [Fun(n, 0, <<>>, FALSE, 0,
                            (IF defined THEN <<ICl("mf", <<>>), IS("DEFINE_GLOBAL", name)>> ELSE <<>>)
                            \o <<I("NULL"), I("RETURN")>>)
                        EXCEPT !.module = "m1"]
                  [] OTHER -> [Fun(n, 0, <<>>, FALSE, 0, <<IV(NUM_VAL(300)), I("RETURN")>>)
                               EXCEPT !.module = "m1"]]]

\* Import forms.  main may import the module first (pre), then evaluates
\* import <module> as x (form as) or import <module> for <name> (form from, the
\* name being v, which the module defines, w, which it does not, _h, which it
\* defines, or *); the module is m1, whose top-level code defines v and _h, or
\* nofile, which no file exists for.
ImportFormCode(form, module, pre, name) ==
    (IF pre THEN <<IS("IMPORT", module), I("POP")>> ELSE <<>>)
    \o (IF form = "as" THEN <<ISS("IMPORT_AS", module, "x"), I("POP")>>
        ELSE <<IS("IMPORT_FROM", module), I("POP"), ISS("IMPORT_NAME", module, name)>>)
    \o <<I("NULL"), I("RETURN")>>

ImportFormProgram(form, module, pre, name) ==
    [kind |-> "impform",
     p |-> [form |-> form, module |-> module, pre |-> pre, name |-> name],
     fns |-> [n \in {"main", "m1"} |->
                IF n = "main" THEN Fun(n, 0, <<>>, FALSE, 0, ImportFormCode(form, module, pre, name))
                ELSE [Fun(n, 0, <<>>, FALSE, 0,
                          <<IV(NUM_VAL(1)), IS("DEFINE_GLOBAL", "v"),
                            IV(NUM_VAL(2)), IS("DEFINE_GLOBAL", "_h"), I("NULL"), I("RETURN")>>)
                      EXCEPT !.module = "m1"]]]

\* Raising values.  main binds a value to the global e and raises it, after having
\* raised it once inside a try statement that handles it (twice) or not; the value
\* is an instance of Exception, of TypeException, of the user class E that extends
\* Exception or of the user class A that does not, the class Exception itself,
\* the number 5, the string "a" or null.
RaisedValueCode(what) ==
    CASE what = "E" -> <<IS("GET_GLOBAL", "Exception"), IS("NEW_SUBCLASS", "E"), IS("DEFINE_GLOBAL", "E"),
                         IS("GET_GLOBAL", "E"), IA("CALL", 0)>>
      [] what = "A" -> DeclareClass("A", <<>>) \o <<IS("GET_GLOBAL", "A"), IA("CALL", 0)>>
      [] what = "cls" -> <<IS("GET_GLOBAL", "Exception")>>
      [] what = "num" -> <<IV(NUM_VAL(5))>>
      [] what = "str" -> <<IV(StrConst(<<"a">>))>>
      [] what = "null" -> <<I("NULL")>>
      [] OTHER -> <<IS("GET_GLOBAL", what), IA("CALL", 0)>>

RaiseProgram(what, twice) ==
    [kind |-> "raise",
     p |-> [what |-> what, twice |-> twice],
     fns |-> [n \in {"main"} |->
                Fun(n, 0, <<>>, FALSE, 0,
                    RaisedValueCode(what) \o <<IS("DEFINE_GLOBAL", "e")>>
                    \o (IF twice THEN TryStmt("except_handle", <<IS("GET_GLOBAL", "e"), I("RAISE")>>, 1)
                        ELSE <<>>)
                    \o <<IS("GET_GLOBAL", "e"), I("RAISE")>>)]]

\* Bound methods.  main binds bm to a method taken by field access: the method m
\* (one parameter, returns its receiver) of an instance of the user class A, or the
\* native method new of the number 5; it may then try to assign a field of bm
\* inside a try statement, and returns bm called with argc arguments.
BoundMainCode(kind, set, argc) ==
    (IF kind = "closure"
     THEN DeclareClass("A", <<ICl("meth", <<>>), IS("DEF_METHOD", "m")>>)
          \o <<IS("GET_GLOBAL", "A"), IA("CALL", 0), IS("GET_FIELD", "m")>>
     ELSE <<IV(NUM_VAL(5)), IS("GET_FIELD", "new")>>)
    \o <<IS("DEFINE_GLOBAL", "bm")>>
    \o (IF set THEN TryStmt("except_handle",
                            <<IV(NUM_VAL(6)), IS("GET_GLOBAL", "bm"), IS("SET_FIELD", "bound"), I("POP")>>, 1)
        ELSE <<>>)
    \o <<IS("GET_GLOBAL", "bm")>> \o [i \in 1..argc |-> IV(ArgVal(i))] \o <<IA("CALL", argc), I("RETURN")>>

BoundProgram(kind, set, argc) ==
    [kind |-> "bound",
     p |-> [kind |-> kind, set |-> set, argc |-> argc],
     fns |-> [n \in {"main", "meth"} |->
                IF n = "main" THEN Fun(n, 0, <<>>, FALSE, 0, BoundMainCode(kind, set, argc))
                ELSE Fun(n, 1, <<>>, FALSE, 0, <<IA("GET_LOCAL", 0), I("RETURN")>>)]]

\* Calls across modules.  main imports m1, whose top-level code defines the
\* function f, calls m1.f() inside a try statement that handles exceptions or not,
\* then reads its own global m1 and returns 9.  f reads the global f of its module
\* and returns (ret), reads an undefined global (name), calls the native ret and
\* returns (native_ret), or calls the native fail, grow or growfail.
CrossBodyCode(body) ==
    CASE body = "ret" -> <<IS("GET_GLOBAL", "f"), I("RETURN")>>
      [] body = "name" -> <<IS("GET_GLOBAL", "undefined"), I("RETURN")>>
      [] body = "native_ret" -> <<IV(NativeConst("ret")), IV(NUM_VAL(5)), IA("CALL", 1), I("POP"),
                                  IS("GET_GLOBAL", "f"), I("RETURN")>>
      [] body = "native_grow" -> <<IV(NativeConst("grow")), IA("CALL", 0), I("POP"),
                                   IS("GET_GLOBAL", "f"), I("RETURN")>>
      [] body = "native_growfail" -> <<IV(NativeConst("growfail")), IA("CALL", 0), I("POP"),
                                       IS("GET_GLOBAL", "f"), I("RETURN")>>
      [] OTHER -> <<IV(NativeConst("fail")), IA("CALL", 0), I("POP"), IS("GET_GLOBAL", "f"), I("RETURN")>>

CrossProgram(body, caught) ==
    LET call == <<IS("GET_GLOBAL", "m1"), ISA("INVOKE", "f", 0), I("POP")>>
    IN  [kind |-> "cross",
         p |-> [body |-> body, caught |-> caught],
         fns |-> [n \in {"main", "m1", "mf"} |->
                    CASE n = "main" ->
                           Fun(n, 0, <<>>, FALSE, 0,
                               <<IS("IMPORT", "m1"), I("POP")>>
                               \o (IF caught THEN TryStmt("except_handle", call, 1) ELSE call)
                               \o <<IS("GET_GLOBAL", "m1"), I("POP"), IV(NUM_VAL(9)), I("RETURN")>>)
                      [] n = "m1" ->
                           [Fun(n, 0, <<>>, FALSE, 0,
                                <<ICl("mf", <<>>), IS("DEFINE_GLOBAL", "f"), I("NULL"), I("RETURN")>>)
                            EXCEPT !.module = "m1"]
                      [] OTHER -> [Fun(n, 0, <<>>, FALSE, 0, CrossBodyCode(body)) EXCEPT !.module = "m1"]]]

\* Recursion.  main calls f(k), inside a try / except statement or not; f(n) calls
\* f(n - 1) while n >= 1, and f(0) calls the function g, calls the native ret or
\* fail, or imports the module m1.
LeafCode(leaf) ==
    CASE leaf = "call" -> <<ICl("g", <<>>), IA("CALL", 0), I("POP")>>
      [] leaf = "native" -> <<IV(NativeConst("ret")), IV(NUM_VAL(5)), IA("CALL", 1), I("POP")>>
      [] leaf = "fail" -> <<IV(NativeConst("fail")), IA("CALL", 0), I("POP")>>
      [] OTHER -> <<IS("IMPORT", "m1"), I("POP")>>

RecCode(leaf) ==
    <<IA("GET_LOCAL", 1), IV(NUM_VAL(1)), IS("COMPARE", "<"), IA("JUMPF", Len(LeafCode(leaf)) + 2)>>
    \o LeafCode(leaf) \o <<I("NULL"), I("RETURN")>>
    \o <<ICl("f", <<>>), IA("GET_LOCAL", 1), IV(NUM_VAL(1)), IS("ARITH", "-"), IA("CALL", 1), I("RETURN")>>

RecProgram(k, leaf, caught) ==
    [kind |-> "rec",
     p |-> [k |-> k, leaf |-> leaf, caught |-> caught],
     fns |-> [n \in {"main", "f", "g", "m1"} |->
                CASE n = "main" ->
                       Fun(n, 0, <<>>, FALSE, 0,
                           (IF caught
                            THEN TryStmt("except_handle", <<ICl("f", <<>>), IV(NUM_VAL(k)), IA("CALL", 1), I("POP")>>, 1)
                            ELSE <<ICl("f", <<>>), IV(NUM_VAL(k)), IA("CALL", 1), I("POP")>>)
                           \o <<IV(NUM_VAL(9)), I("RETURN")>>)
                  [] n = "f" -> Fun(n, 1, <<>>, FALSE, 0, RecCode(leaf))
                  [] n = "g" -> Fun(n, 0, <<>>, FALSE, 0, <<I("NULL"), I("RETURN")>>)
                  [] OTHER -> TopLevel(n, "none")]]

\* A try statement whose except or ensure block is the given code.
TryWith(level, body, block) ==
    IF level = "ensure"
    THEN <<IA("SETUP_ENSURE", Len(body) + 3)>> \o body
         \o <<I("POP_HANDLER"), I("NULL"), I("NULL")>> \o block \o <<I("END_TRY"), I("POP"), I("POP")>>
    ELSE <<IA("SETUP_EXCEPT", Len(body) + 4)>> \o body
         \o <<I("POP_HANDLER"), I("NULL"), I("NULL"), IA("JUMP", Len(block))>> \o block
         \o <<I("END_TRY"), I("POP"), I("POP")>>

\* Raising handler blocks.  main returns what f returns; f runs the body inside a
\* try statement whose except or ensure block raises a TypeException, that statement
\* standing alone or in the body of an outer try statement, and then returns 9.
BlockRaiseProgram(outer, level, body) ==
    [kind |-> "hraise",
     p |-> [outer |-> outer, level |-> level, body |-> body],
     fns |-> [n \in {"main", "f", "g"} |->
                CASE n = "main" -> Fun(n, 0, <<>>, FALSE, 0, <<ICl("f", <<>>), IA("CALL", 0), I("RETURN")>>)
                  [] n = "f" ->
                       Fun(n, 0, <<>>, FALSE, 0,
                           TryNest(outer,
                                   TryWith(level, BodyCode(body),
                                           <<IS("GET_GLOBAL", "TypeException"), IA("CALL", 0), I("RAISE")>>),
                                   1)
                           \o <<IV(NUM_VAL(9)), I("RETURN")>>)
                  [] OTHER -> Fun(n, 0, <<>>, FALSE, 0, RaiseCode)]]

\* Super calls.  P1.m returns 1 and P2.m returns 2.  mk(sup) evaluates the class
\* declaration class C is sup, whose method m returns super.m(), and returns the
\* class.  main makes C1 = mk(first), may make C2 = mk(second), may declare the
\* subclass D of C1, and returns recv().m(), recv being C1 or D.
SuperMainCode(first, second, recv) ==
    DeclareClass("P1", <<ICl("pm1", <<>>), IS("DEF_METHOD", "m")>>)
    \o DeclareClass("P2", <<ICl("pm2", <<>>), IS("DEF_METHOD", "m")>>)
    \o <<ICl("mk", <<>>), IS("GET_GLOBAL", first), IA("CALL", 1), IS("DEFINE_GLOBAL", "C1")>>
    \o (IF second = "none" THEN <<>>
        ELSE <<ICl("mk", <<>>), IS("GET_GLOBAL", second), IA("CALL", 1), IS("DEFINE_GLOBAL", "C2")>>)
    \o (IF recv = "D" THEN <<IS("GET_GLOBAL", "C1"), IS("NEW_SUBCLASS", "D"), IS("DEFINE_GLOBAL", "D")>>
        ELSE <<>>)
    \o <<IS("GET_GLOBAL", recv), IA("CALL", 0), ISA("INVOKE", "m", 0), I("RETURN")>>

SuperProgram(first, second, recv) ==
    [kind |-> "super",
     p |-> [first |-> first, second |-> second, recv |-> recv],
     fns |-> [n \in {"main", "pm1", "pm2", "mk", "cm"} |->
                CASE n = "main" -> Fun(n, 0, <<>>, FALSE, 0, SuperMainCode(first, second, recv))
                  [] n = "pm1" -> Fun(n, 0, <<>>, FALSE, 0, <<IV(NUM_VAL(1)), I("RETURN")>>)
                  [] n = "pm2" -> Fun(n, 0, <<>>, FALSE, 0, <<IV(NUM_VAL(2)), I("RETURN")>>)
                  [] n = "mk" -> Fun(n, 1, <<>>, FALSE, 0,
                                     <<IA("GET_LOCAL", 1), IS("NEW_SUBCLASS", "C"),
                                       ICl("cm", <<>>), IS("DEF_METHOD", "m"), I("RETURN")>>)
                  [] OTHER -> Fun(n, 0, <<>>, FALSE, 0,
                                  <<IA("GET_LOCAL", 0), ISA("SUPER", "m", 0), I("RETURN")>>)]]

\* Class declarations with a supertype.  main evaluates class S is <supertype>, the
\* supertype being a class of the core module, the user class P, the class that the
\* call mkc() returns (and nothing else refers to), an instance of P, or the
\* constant 5, "a" or null; it returns the class.
SupertypeCode(kind) ==
    CASE kind = "user" -> DeclareClass("P", <<>>) \o <<IS("GET_GLOBAL", "P")>>
      [] kind = "fresh" -> <<ICl("mkc", <<>>), IA("CALL", 0)>>
      [] kind = "inst" -> DeclareClass("P", <<>>) \o <<IS("GET_GLOBAL", "P"), IA("CALL", 0)>>
      [] kind = "num" -> <<IV(NUM_VAL(5))>>
      [] kind = "str" -> <<IV(StrConst(<<"a">>))>>
      [] kind = "null" -> <<I("NULL")>>
      [] OTHER -> <<IS("GET_GLOBAL", kind)>>

SubclassProgram(kind) ==
    [kind |-> "sub",
     p |-> [kind |-> kind],
     fns |-> [n \in {"main", "mkc"} |->
                IF n = "main"
                THEN Fun(n, 0, <<>>, FALSE, 0, SupertypeCode(kind) \o <<IS("NEW_SUBCLASS", "S"), I("RETURN")>>)
                ELSE Fun(n, 0, <<>>, FALSE, 0, <<IS("NEW_CLASS", "T"), I("RETURN")>>)]]

\* Calling a class.  main calls, with argc arguments, the user class A whose
\* constructor new has arity parameters (ctor), the user class A without
\* constructor (plain), or a class of the core module.
ClassCallCode(kind, argc) ==
    (CASE kind = "ctor" -> DeclareClass("A", <<ICl("ctor", <<>>), IS("DEF_METHOD", "new")>>) \o <<IS("GET_GLOBAL", "A")>>
       [] kind = "plain" -> DeclareClass("A", <<>>) \o <<IS("GET_GLOBAL", "A")>>
       [] OTHER -> <<IS("GET_GLOBAL", kind)>>)
    \o [i \in 1..argc |-> IV(ArgVal(i))] \o <<IA("CALL", argc), I("RETURN")>>

ClassCallProgram(kind, arity, argc) ==
    [kind |-> "cls",
     p |-> [kind |-> kind, arity |-> arity, argc |-> argc],
     fns |-> [n \in {"main", "ctor"} |->
                IF n = "main" THEN Fun(n, 0, <<>>, FALSE, 0, ClassCallCode(kind, argc))
                ELSE Fun(n, arity, <<>>, FALSE, 0, <<IA("GET_LOCAL", 0), I("RETURN")>>)]]

\* Globals.  main may define the global x, then assigns 2 to x or reads x, inside a
\* try / except statement or not, and returns x.
GlobalProgram(defined, use, caught) ==
    LET access == IF use = "set" THEN <<IV(NUM_VAL(2)), IS("SET_GLOBAL", "x"), I("POP")>>
                  ELSE <<IS("GET_GLOBAL", "x"), I("POP")>>
    IN  [kind |-> "glob",
         p |-> [defined |-> defined, use |-> use, caught |-> caught],
         fns |-> [n \in {"main"} |->
                    Fun(n, 0, <<>>, FALSE, 0,
                        (IF defined THEN <<IV(NUM_VAL(1)), IS("DEFINE_GLOBAL", "x")>> ELSE <<>>)
                        \o (IF caught THEN TryStmt("except_handle", access, 1) ELSE access)
                        \o <<IS("GET_GLOBAL", "x"), I("RETURN")>>)]]

\* Unpacking.  main makes a tuple or a list of the elements 11 .. 10 + size, or takes
\* the constant 5 or null, unpacks it into k targets and returns the last of them.
SequenceCode(kind, size) ==
    CASE kind = "tuple" -> [i \in 1..size |-> IV(ArgVal(i))] \o <<IA("NEW_TUPLE", size)>>
      [] kind = "list" ->
           <<I("NEW_LIST")>>
           \o [i \in 1..2 * size |-> IF i % 2 = 1 THEN IV(ArgVal((i + 1) \div 2)) ELSE I("APPEND_LIST")]
      [] kind = "num" -> <<IV(NUM_VAL(5))>>
      [] OTHER -> <<I("NULL")>>

UnpackProgram(kind, size, k) ==
    [kind |-> "unp",
     p |-> [kind |-> kind, size |-> size, k |-> k],
     fns |-> [n \in {"main"} |->
                Fun(n, 0, <<>>, FALSE, 0, SequenceCode(kind, size) \o <<IA("UNPACK", k), I("RETURN")>>)]]

\* the programs the machine is run on
Programs ==
    {TryProgram(l, b) :
        l \in UNION {[1..n -> {"ensure", "except_handle", "except_pass"}] : n \in 0..MaxNest},
        b \in {"ret_null", "ret_num", "raise", "call_raise", "fall"}}
    \cup {UpvProgram(v, m, e) :
        v \in {"direct", "outer"}, m \in {"none", "try"}, e \in {"return", "block", "raise"}}
    \cup {ArgsProgram(q.n, q.d, q.vararg, q.argc) :
        q \in {r \in [n : 0..MaxArity, d : 0..MaxArity, vararg : BOOLEAN, argc : 0..MaxArity + 1] :
                 r.d <= r.n}}
    \cup {NativeArgsProgram(f, a) : f \in {"ret", "new"}, a \in 0..MaxArity + 1}
    \cup {ImportFormProgram("as", m, pre, "none") : m \in {"m1", "nofile"}, pre \in BOOLEAN}
    \cup {ImportFormProgram("from", m, pre, n) :
        m \in {"m1", "nofile"}, pre \in BOOLEAN, n \in {"v", "w", "_h", "*"}}
    \cup {RaiseProgram(w, t) :
        w \in {"Exception", "TypeException", "E", "A", "cls", "num", "str", "null"}, t \in BOOLEAN}
    \cup {BoundProgram(k, t, a) : k \in {"closure", "native"}, t \in BOOLEAN, a \in 0..MaxArity}
    \cup {CrossProgram(b, c) : b \in {"ret", "name", "native_ret", "native_fail", "native_grow", "native_growfail"}, c \in BOOLEAN}
    \cup {ModuleNameProgram(n, d, u) :
        n \in {"__string__", "f"}, d \in BOOLEAN, u \in {"access", "invoke"}}
    \cup {FieldProgram(k, h, u) :
        k \in {"none", "closure", "num"}, h \in BOOLEAN, u \in {"access", "invoke"}}
    \cup {OpsProgram(op, lk, rk) :
        op \in {"+", "==", "<", "<=", ">", ">="} \cup ArithOps,
        lk \in {"num", "str", "A0", "A1"}, rk \in {"num", "str", "B0", "B1"}}
    \cup {StrProgram(e1, e2) :
        e1 \in {"const", "concat", "subscr"}, e2 \in {"const", "concat", "subscr"}}
    \cup {ImportProgram(ns, a, b) :
        ns \in UNION {[1..n -> {"m1", "m2", "nofile"}] : n \in 1..MaxImports},
        a \in {"none", "m2", "m1"}, b \in {"none", "m1"}}
    \cup {RecProgram(k, leaf, c) :
        k \in 0..MaxRecursion, leaf \in {"call", "native", "fail", "import"}, c \in BOOLEAN}
    \cup {BlockRaiseProgram(o, l, b) :
        o \in {<<>>, <<"except_handle">>, <<"except_pass">>, <<"ensure">>},
        l \in {"ensure", "except"},
        b \in {"ret_null", "ret_num", "raise", "call_raise", "fall"}}
    \cup {SuperProgram(f, g, r) :
        f \in {"P1", "P2"}, g \in {"none", "P1", "P2"}, r \in {"C1", "D"}}
    \cup {SubclassProgram(k) :
        k \in {"user", "fresh", "inst", "num", "str", "null"} \cup {ClassNames[i] : i \in 1..Len(ClassNames)}}
    \cup {ClassCallProgram(q.kind, q.arity, q.argc) :
        q \in {r \in [kind : {"ctor", "plain"} \cup {ClassNames[i] : i \in 1..Len(ClassNames)},
                      arity : 0..MaxArity, argc : 0..MaxArity] :
                 r.arity = 0 \/ r.kind = "ctor"}}
    \cup {CapturesProgram(o, m, e) : o \in CaptureOrders, m \in {"none", "try"}, e \in {"return", "block"}}
    \cup {GlobalProgram(d, u, c) : d \in BOOLEAN, u \in {"set", "get"}, c \in BOOLEAN}
    \cup {UnpackProgram(q.kind, q.size, q.k) :
        q \in {r \in [kind : {"tuple", "list", "num", "null"}, size : 0..MaxElems, k : 1..MaxElems] :
                 r.size = 0 \/ r.kind \in {"tuple", "list"}}}

----------------------------------------------------------------------------
(* The machine after jsrNewVM, with a closure of the program's main function *)
(* called by the host: runEval(depth) is about to dispatch its first         *)
(* instruction.  With depth = 1 the host is itself a native function whose   *)
(* frame lies below.                                                         *)

ClassObj(i) ==
    [type |-> "class", cls |-> 1, name |-> ClassNames[i],
     superCls |-> IF i = 2 THEN 0 ELSE IF i >= 15 THEN 12 ELSE 2,
     methods |-> IF ClassNames[i] \in {"List", "Tuple", "Number", "Boolean", "String"}
                 THEN hashTablePut(EmptyTable, "new", NativeConst("new"))
                 ELSE IF ClassNames[i] = "Module"
                 THEN hashTablePut(EmptyTable, "__string__", NativeConst("str"))
                 ELSE EmptyTable]

CoreGlobals == [n \in {ClassNames[i] : i \in 1..Len(ClassNames)} |->
                  OBJ_VAL(CHOOSE i \in 1..Len(ClassNames) : ClassNames[i] = n)]

BaseObjects ==
    [i \in 1..Len(ClassNames) |-> ClassObj(i)]
    \o [i \in 1..2 |-> [type |-> "module", cls |-> 8, name |-> IF i = 1 THEN "__core__" ELSE "__main__",
                         globals |-> CoreGlobals]]
    \o <<[type |-> "closure", cls |-> 7, fn |-> "main", upvalues |-> <<>>],
         [type |-> "native", cls |-> 7, name |-> "host", argsCount |-> 0, defaultc |-> 0,
          defaults |-> <<>>, vararg |-> FALSE, module |-> "__main__", fn |-> "ok"]>>
    \o [i \in 1..Len(StrConsts) |-> [type |-> "string", cls |-> 3, data |-> StrConsts[i]]]
    \o [i \in 1..Len(NativeFns) |->
          [type |-> "native", cls |-> 7, name |-> NativeFns[i],
           argsCount |-> IF NativeFns[i] = "ret" THEN 1 ELSE 0, defaultc |-> 0,
           defaults |-> <<>>, vararg |-> NativeFns[i] = "new", module |-> "__core__",
           fn |-> NativeFns[i]]]

Frame0(ip, base, fn, serial) ==
    [ip |-> ip, stack |-> base, fn |-> fn, handlers |-> <<>>, serial |-> serial]

HostFrame == Frame0(0, 0, HostNative, 1)

\* A JStarBuffer is known by the name of the C variable that holds it.  Its
\* memory belongs to the VM it was initialised with; g_bufs records, for each
\* buffer, whether it is live, pushed or freed and what it holds, and g_misuse
\* collects the calls made on a buffer that is not live or whose VM is gone.
BufNames == {"completionBuf", "buf", "script_src", "repl_src"}

NoBuffers == [b \in BufNames |-> [state |-> "none", data |-> <<>>]]

roundUp(num, multiple) == ((num + multiple - 1) \div multiple) * multiple

\* vm->frameSz as jsrNewVM computes it from conf->stackSize
NewFrameSz(stackSize) == roundUp(stackSize, MAX_LOCALS + 1) \div (MAX_LOCALS + 1)

\* vm->frameSz after getFrame has pushed n frames on top of count frames
RECURSIVE FrameSzAfter(_, _, _)
FrameSzAfter(frameSz, count, n) ==
    IF n = 0 THEN frameSz
    ELSE FrameSzAfter(IF count + 1 = frameSz THEN 2 * frameSz ELSE frameSz, count + 1, n - 1)

InitVM(d) ==
    [stack |-> [i \in 0..StackSz - 1 |->
                  IF d = 1 /\ i = 0 THEN OBJ_VAL(HostNative)
                  ELSE IF i = d THEN OBJ_VAL(MainClosure) ELSE NULL_VAL],
     sp |-> d + 1,
     frames |-> IF d = 1 THEN <<HostFrame, Frame0(1, 1, MainClosure, 2)>>
                ELSE <<Frame0(1, 0, MainClosure, 1)>>,
     frameSz |-> FrameSzAfter(NewFrameSz(StackSz), 0, d + 1),
     upvalues |-> <<>>,
     objects |-> BaseObjects,
     module |-> Len(ClassNames) + 2, core |-> Len(ClassNames) + 1,
     modules |-> [n \in {"__core__", "__main__"} |->
                    IF n = "__core__" THEN Len(ClassNames) + 1 ELSE Len(ClassNames) + 2],
     strings |-> InitStrings,
     superConst |-> EmptyTable,
     apiStack |-> 0,
     evalBreak |-> 0,
     importPaths |-> <<>>,
     clsClass |-> 1, objClass |-> 2, strClass |-> 3, boolClass |-> 4, lstClass |-> 5,
     numClass |-> 6, funClass |-> 7, modClass |-> 8, nullClass |-> 9, stClass |-> 10,
     tupClass |-> 11, excClass |-> 12, tableClass |-> 13, udataClass |-> 14,
     g_hlog |-> <<>>, g_hid |-> 0, g_serial |-> d + 1, g_unw |-> 0, g_calls |-> <<>>,
     g_var |-> [o \in {} |-> NULL_VAL], g_dead |-> {}, g_unrooted |-> {},
     g_alive |-> TRUE, g_bufs |-> NoBuffers, g_misuse |-> {}, g_stack |-> 0, g_api |-> 0,
     g_frame |-> [fn |-> 0, base |-> 0, callee |-> NULL_VAL, params |-> <<>>]]

Init ==
    /\ prog \in Programs
    /\ depth \in {0, 1}
    /\ vm = InitVM(depth)
    /\ status = "run"

Next ==
    \/ OP_NULL \/ OP_GET_CONST \/ OP_POP \/ OP_SET_LOCAL \/ OP_JUMP \/ OP_JUMPF
    \/ OP_CALL \/ OP_RETURN \/ OP_SETUP \/ OP_END_TRY \/ OP_POP_HANDLER \/ OP_RAISE
    \/ OP_CLOSURE \/ OP_GET_GLOBAL \/ OP_DEFINE_GLOBAL \/ OP_GET_LOCAL
    \/ OP_GET_UPVALUE \/ OP_SET_UPVALUE \/ OP_CLOSE_UPVALUE \/ OP_ADD
    \/ OP_NEW_CLASS \/ OP_DEF_METHOD \/ OP_GET_FIELD \/ OP_SET_FIELD \/ OP_INVOKE
    \/ OP_ARITH \/ OP_COMPARE \/ OP_EQ \/ OP_SUBSCR_GET \/ OP_IMPORT
    \/ OP_NEW_SUBCLASS \/ OP_SUPER \/ OP_SET_GLOBAL
    \/ OP_NEW_TUPLE \/ OP_NEW_LIST \/ OP_APPEND_LIST \/ OP_UNPACK
    \/ OP_IMPORT_AS \/ OP_IMPORT_FROM \/ OP_IMPORT_NAME

Spec == Init /\ [][Next]_vars

----------------------------------------------------------------------------
(* Evaluation under SIGINT.  The command line front end installs sigintHandler, *)
(* which may run between any two instructions of an evaluation; the dispatch    *)
(* loop itself never stops of its own accord (weak fairness of Dispatch).       *)

\* jsrEvalBreak(vm): request that the evaluation in progress be interrupted
jsrEvalBreak(m) == [m EXCEPT !.evalBreak = 1]

\* sigintHandler
SigInt ==
    /\ status = "run"
    /\ vm.evalBreak = 0
    /\ vm' = jsrEvalBreak(vm)
    /\ UNCHANGED <<prog, depth, status>>

\* Loops.  main runs while true or, with a counter i in slot 1, while i < n; the
\* body is empty, pushes and pops a constant, or calls f.
LoopBack(code, start) == code \o <<IA("JUMP", start - (Len(code) + 2))>>

ForeverCode(body) ==
    LET work == IF body = "work" THEN <<IV(NUM_VAL(1)), I("POP")>> ELSE <<>>
    IN  LoopBack(<<IV(BOOL_VAL(TRUE)), IA("JUMPF", Len(work) + 1)>> \o work, 1)
        \o <<I("NULL"), I("RETURN")>>

CountCode(n, body) ==
    LET work == IF body = "call" THEN <<ICl("f", <<>>), IA("CALL", 0), I("POP")>> ELSE <<>>
        step == <<IA("GET_LOCAL", 1), IV(NUM_VAL(1)), I("ADD"), IA("SET_LOCAL", 1), I("POP")>>
    IN  LoopBack(<<IV(NUM_VAL(0)), IA("GET_LOCAL", 1), IV(NUM_VAL(n)), IS("COMPARE", "<"),
                   IA("JUMPF", Len(work) + Len(step) + 1)>> \o work \o step, 2)
        \o <<I("NULL"), I("RETURN")>>

LoopProgram(code, n, body) ==
    [kind |-> "loop",
     p |-> [n |-> n, body |-> body],
     fns |-> [name \in {"main", "f"} |->
                IF name = "main" THEN Fun(name, 0, <<>>, FALSE, 0, code)
                ELSE Fun(name, 0, <<>>, FALSE, 0, <<I("NULL"), I("RETURN")>>)]]

LoopPrograms ==
    {LoopProgram(ForeverCode(b), -1, b) : b \in {"empty", "work"}}
    \cup {LoopProgram(CountCode(n, b), n, b) : n \in 0..MaxCount, b \in {"empty", "call"}}

InitBreak ==
    /\ prog \in LoopPrograms
    /\ depth \in {0, 1}
    /\ vm = InitVM(depth)
    /\ status = "run"

Dispatch ==
    \/ OP_NULL \/ OP_GET_CONST \/ OP_POP \/ OP_GET_LOCAL \/ OP_SET_LOCAL
    \/ OP_JUMP \/ OP_JUMPF \/ OP_ADD \/ OP_COMPARE \/ OP_CLOSURE \/ OP_CALL \/ OP_RETURN

NextBreak == SigInt \/ Dispatch

SpecBreak == InitBreak /\ [][NextBreak]_vars /\ WF_vars(Dispatch)

----------------------------------------------------------------------------
(* The frames array.  jsrNewVM sizes it from conf->stackSize; the recursive      *)
(* programs run on a VM created with any stack size up to MaxStackSize.  A frame  *)
(* written past the end of the array is undefined behaviour: nothing is said      *)
(* about what the program does after it.                                          *)

RecPrograms ==
    {RecProgram(k, l, c) : k \in 0..MaxRecursion, l \in {"call", "native", "fail", "import"}, c \in BOOLEAN}

InitFrames ==
    /\ prog \in RecPrograms
    /\ depth \in {0, 1}
    /\ \E stackSize \in 0..MaxStackSize :
          vm = [InitVM(depth) EXCEPT !.frameSz = FrameSzAfter(NewFrameSz(stackSize), 0, depth + 1)]
    /\ status = "run"

\* a frame lies outside the array
Overrun == Len(vm.frames) > vm.frameSz

NextFrames ==
    /\ ~Overrun
    /\ \/ OP_NULL \/ OP_GET_CONST \/ OP_POP \/ OP_GET_LOCAL \/ OP_SET_LOCAL \/ OP_JUMP \/ OP_JUMPF
       \/ OP_ARITH \/ OP_COMPARE \/ OP_CLOSURE \/ OP_CALL \/ OP_RETURN \/ OP_SETUP
       \/ OP_POP_HANDLER \/ OP_END_TRY \/ OP_IMPORT \/ OP_DEFINE_GLOBAL

SpecFrames == InitFrames /\ [][NextFrames]_vars

----------------------------------------------------------------------------
(* Import paths of the command line front end.  A path and the value of         *)
(* JSTARPATH are sequences of characters; importPaths is the list the search    *)
(* for a module walks from its first element on.                                *)

\* the list of import paths grows at its end
jsrAddImportPath(m, path) == [m EXCEPT !.importPaths = Append(@, path)]

Usable(m, b) == m.g_alive /\ m.g_bufs[b].state = "live"

Misused(m, b, op, bad) == IF bad THEN [m EXCEPT !.g_misuse = @ \cup {<<b, op>>}] ELSE m

jsrBufferInit(m, b) ==
    [Misused(m, b, "init", ~m.g_alive \/ m.g_bufs[b].state = "live")
        EXCEPT !.g_bufs[b] = [state |-> "live", data |-> <<>>]]

jsrBufferAppend(m, b, str, len) ==
    [Misused(m, b, "append", ~Usable(m, b)) EXCEPT !.g_bufs[b].data = @ \o SubSeq(str, 1, len)]

jsrBufferPrependStr(m, b, str) ==
    [Misused(m, b, "prepend", ~Usable(m, b)) EXCEPT !.g_bufs[b].data = str \o @]

jsrBufferClear(m, b) ==
    [Misused(m, b, "clear", ~Usable(m, b)) EXCEPT !.g_bufs[b].data = <<>>]

jsrBufferFree(m, b) ==
    [Misused(m, b, "free", ~Usable(m, b)) EXCEPT !.g_bufs[b] = [state |-> "freed", data |-> <<>>]]

\* jstarPath + last : the characters of jstarPath from offset last on
From(jstarPath, last) == SubSeq(jstarPath, last + 1, Len(jstarPath))

\* the for loop of initImportPaths from index i on; r holds vm and last
RECURSIVE splitLoop(_, _, _)
splitLoop(r, jstarPath, i) ==
    IF ~(i < Len(jstarPath)) THEN r
    ELSE IF jstarPath[i + 1] = ":"
         THEN LET m1 == jsrBufferAppend(r.vm, "buf", From(jstarPath, r.last), i - r.last)
                  m2 == jsrAddImportPath(m1, m1.g_bufs["buf"].data)
              IN  splitLoop([vm |-> jsrBufferClear(m2, "buf"), last |-> i + 1], jstarPath, i + 1)
         ELSE splitLoop(r, jstarPath, i + 1)

\* faulty variant of initImportPaths: the custom path is added last
initImportPaths_M(m, path, ignoreEnv, env) ==
    IF ignoreEnv \/ ~env.set THEN jsrAddImportPath(m, path)
    ELSE LET r == splitLoop([vm |-> jsrBufferInit(m, "buf"), last |-> 0], env.val, 0)
             m1 == jsrBufferAppend(r.vm, "buf", From(env.val, r.last), Len(env.val) - r.last)
         IN  jsrAddImportPath(jsrBufferFree(jsrAddImportPath(m1, m1.g_bufs["buf"].data), "buf"), path)

\* env is what getenv("JSTARPATH") returns: not set (NULL), or a string
initImportPaths(m, path, ignoreEnv, env) ==
    LET m1 == jsrAddImportPath(m, path)
    IN  IF ignoreEnv THEN m1
        ELSE IF ~env.set THEN m1
        ELSE LET r == splitLoop([vm |-> jsrBufferInit(m1, "buf"), last |-> 0], env.val, 0)
                 m2 == jsrBufferAppend(r.vm, "buf", From(env.val, r.last), Len(env.val) - r.last)
             IN  jsrBufferFree(jsrAddImportPath(m2, m2.g_bufs["buf"].data), "buf")

PathChars == {"a", "b", ":"}

PathValues == UNION {[1..n -> PathChars] : n \in 0..MaxPathLen}

\* the directory of the script, or "./" for a script without one and for the repl
BasePaths == {<<".", "/">>, <<"d", "/">>}

CliRuns ==
    {[kind |-> "cli",
      p |-> [ignoreEnv |-> e, env |-> v, path |-> b],
      fns |-> [n \in {} |-> 0]] :
        e \in BOOLEAN, b \in BasePaths,
        v \in {[set |-> FALSE, val |-> <<>>]} \cup {[set |-> TRUE, val |-> w] : w \in PathValues}}

InitPaths ==
    /\ prog \in CliRuns
    /\ depth = 0
    /\ vm = InitVM(0)
    /\ status = "start"

InitImportPaths ==
    /\ status = "start"
    /\ vm' = initImportPaths(vm, prog.p.path, prog.p.ignoreEnv, prog.p.env)
    /\ status' = "paths"
    /\ UNCHANGED <<prog, depth>>

NextPaths == InitImportPaths

SpecPaths == InitPaths /\ [][NextPaths]_vars

----------------------------------------------------------------------------
(* The command line front end as a process.  Here the variable vm holds the     *)
(* state of the process: jvm is the static JStarVM* (NULL_VM before initApp),   *)
(* res the JStarResult local of main or doRepl, exit the status the process     *)
(* ended with; evals, version, repl and readFailed record what was evaluated    *)
(* and printed, whether the REPL was entered and whether the script could       *)
(* not be read.  status is the position in main.                                *)

EXIT_SUCCESS == 0
EXIT_FAILURE == 1
JSR_SUCCESS == 0

\* the values of JStarResult an evaluation may return
JStarResults == JSR_SUCCESS..NumErrors

NULL_VM == [null |-> TRUE]

Process ==
    [jvm |-> NULL_VM, atexit |-> FALSE, res |-> JSR_SUCCESS,
     exit |-> [done |-> FALSE, code |-> 0],
     evals |-> <<>>, version |-> 0, repl |-> FALSE, readFailed |-> FALSE,
     lines |-> 0, completions |-> 0]

Options ==
    [showVersion : BOOLEAN, skipVersion : BOOLEAN, execStmt : BOOLEAN,
     script : {"none", "s", "d/s"}, interactive : BOOLEAN, ignoreEnv : BOOLEAN,
     env : {[set |-> FALSE, val |-> <<>>], [set |-> TRUE, val |-> <<"a", ":", "b">>]}]

CliPrograms == {[kind |-> "cli", p |-> o, fns |-> [n \in {} |-> 0]] : o \in Options}

printVersion(P) == [P EXCEPT !.version = @ + 1]

jsrFreeVM(m) == [m EXCEPT !.g_alive = FALSE]

\* faulty variant of freeApp: the VM is freed before the completion buffer
freeApp_M(P) == [P EXCEPT !.jvm = jsrBufferFree(jsrFreeVM(@), "completionBuf")]

freeApp(P) == [P EXCEPT !.jvm = jsrFreeVM(jsrBufferFree(@, "completionBuf"))]

\* exit(code): the functions registered with atexit run, the process ends
exit(P, code) ==
    [(IF P.atexit THEN freeApp(P) ELSE P) EXCEPT !.exit = [done |-> TRUE, code |-> code]]

\* evaluate / evaluateString: res is what jsrEval or jsrEvalString returns
evaluate(P, name, res) == [P EXCEPT !.evals = Append(@, [name |-> name, res |-> res])]

\* initApp, and the atexit call of main
initApp(P, opts) ==
    IF opts.showVersion THEN exit(printVersion(P), EXIT_SUCCESS)
    ELSE [P EXCEPT !.jvm = jsrBufferInit(InitVM(0), "completionBuf"), !.atexit = TRUE]

\* the directory of the script up to and including its last '/', or "./"
ScriptDir(script) == IF script = "d/s" THEN <<"d", "/">> ELSE <<".", "/">>

\* faulty variant of execScript: a script that cannot be read is passed over
execScript_M(P, opts, readOk, res) ==
    LET P1 == [P EXCEPT !.jvm = initImportPaths(@, ScriptDir(opts.script), opts.ignoreEnv, opts.env)]
    IN  IF ~readOk THEN [P1 EXCEPT !.readFailed = TRUE]
        ELSE [evaluate([P1 EXCEPT !.jvm = jsrBufferInit(@, "script_src")], "script", res)
                EXCEPT !.jvm = jsrBufferFree(@, "script_src"), !.res = res]

\* execScript: readOk is what jsrReadFile returns, which initialises src when it
\* succeeds
execScript(P, opts, readOk, res) ==
    LET P1 == [P EXCEPT !.jvm = initImportPaths(@, ScriptDir(opts.script), opts.ignoreEnv, opts.env)]
    IN  IF ~readOk THEN exit([P1 EXCEPT !.readFailed = TRUE], EXIT_FAILURE)
        ELSE [evaluate([P1 EXCEPT !.jvm = jsrBufferInit(@, "script_src")], "script", res)
                EXCEPT !.jvm = jsrBufferFree(@, "script_src"), !.res = res]

\* doRepl up to its loop
doReplEnter(P, opts) ==
    LET P1 == IF ~opts.skipVersion THEN printVersion(P) ELSE P
        m1 == initImportPaths(P1.jvm, <<".", "/">>, opts.ignoreEnv, opts.env)
    IN  [P1 EXCEPT !.jvm = jsrBufferInit(m1, "repl_src"), !.res = JSR_SUCCESS, !.repl = TRUE]

\* addReplPrint: an input that parses as an expression is wrapped
addReplPrint(m, isExpr) ==
    IF isExpr
    THEN jsrBufferAppend(jsrBufferPrependStr(m, "repl_src", <<"var _ = ">>), "repl_src", <<";__replprint(_)">>, 1)
    ELSE m

\* one round of the loop of doRepl
doReplLine(P, isExpr, res) ==
    LET m1 == addReplPrint(jsrBufferAppend(P.jvm, "repl_src", <<"line">>, 1), isExpr)
        P1 == evaluate([P EXCEPT !.jvm = m1], "<stdin>", res)
    IN  [P1 EXCEPT !.jvm = jsrBufferClear(@, "repl_src"), !.res = res, !.lines = @ + 1]

\* the end of input: doRepl returns res to exit
doReplEnd(P) == exit([P EXCEPT !.jvm = jsrBufferFree(@, "repl_src")], P.res)

\* the completion hook, called by replxx while it reads a line
completion(P) ==
    [P EXCEPT !.jvm = jsrBufferAppend(jsrBufferAppend(jsrBufferClear(@, "completionBuf"),
                                                      "completionBuf", <<"ctx">>, 1),
                                      "completionBuf", <<"    ">>, 1),
              !.completions = @ + 1]

InitCli ==
    /\ prog \in CliPrograms
    /\ depth = 0
    /\ vm = Process
    /\ status = "start"

InitApp ==
    /\ status = "start"
    /\ vm' = initApp(vm, prog.p)
    /\ status' = IF vm'.exit.done THEN "exited" ELSE "main"
    /\ UNCHANGED <<prog, depth>>

EvalStmt ==
    /\ status = "main" /\ prog.p.execStmt
    /\ \E res \in JStarResults : vm' = [evaluate(vm, "<string>", res) EXCEPT !.res = res]
    /\ status' = IF prog.p.script # "none" THEN "script" ELSE "ran"
    /\ UNCHANGED <<prog, depth>>

ExecScript ==
    /\ status = "script" \/ (status = "main" /\ ~prog.p.execStmt /\ prog.p.script # "none")
    /\ \E readOk \in BOOLEAN, res \in JStarResults : vm' = execScript(vm, prog.p, readOk, res)
    /\ status' = IF vm'.exit.done THEN "exited" ELSE "ran"
    /\ UNCHANGED <<prog, depth>>

\* if(!opts.interactive) exit(res);
MainExit ==
    /\ status = "ran" /\ ~prog.p.interactive
    /\ vm' = exit(vm, vm.res)
    /\ status' = "exited"
    /\ UNCHANGED <<prog, depth>>

DoRepl ==
    /\ \/ status = "ran" /\ prog.p.interactive
       \/ status = "main" /\ ~prog.p.execStmt /\ prog.p.script = "none"
    /\ vm' = doReplEnter(vm, prog.p)
    /\ status' = "repl"
    /\ UNCHANGED <<prog, depth>>

ReplLine ==
    /\ status = "repl" /\ vm.lines < MaxLines
    /\ \E isExpr \in BOOLEAN, res \in JStarResults : vm' = doReplLine(vm, isExpr, res)
    /\ UNCHANGED <<prog, depth, status>>

Completion ==
    /\ status = "repl" /\ vm.completions < MaxLines
    /\ vm' = completion(vm)
    /\ UNCHANGED <<prog, depth, status>>

ReplEnd ==
    /\ status = "repl"
    /\ vm' = doReplEnd(vm)
    /\ status' = "exited"
    /\ UNCHANGED <<prog, depth>>

NextCli ==
    \/ InitApp \/ EvalStmt \/ ExecScript \/ MainExit
    \/ DoRepl \/ ReplLine \/ Completion \/ ReplEnd

SpecCli == InitCli /\ [][NextCli]_vars

----------------------------------------------------------------------------
(* Properties *)

IsTry == prog.kind = "try"

\* the handler entries made by RETURN, oldest first
IsReturnEntry(e) == e.cause = CAUSE_RETURN
ReturnLog == SelectSeq(vm.g_hlog, IsReturnEntry)

ReturnedValue == IF prog.p.body = "ret_null" THEN NULL_VAL ELSE NUM_VAL(7)

\* C1: a RETURN in a frame with pending handlers runs every pending ENSURE handler
\* of the frame exactly once, innermost first, each entered with (return value,
\* CAUSE_RETURN), never an EXCEPT handler, and then the caller receives the original
\* return value, whatever that value is (null included).
C1_ReturnRunsEnsures ==
    (IsTry /\ prog.p.body \in {"ret_null", "ret_num"}) =>
        /\ status # "false"
        /\ \A k \in 1..Len(ReturnLog) :
              /\ ReturnLog[k].val = ReturnedValue
              /\ prog.p.levels[ReturnLog[k].id] = "ensure"
              /\ k > 1 => ReturnLog[k].id < ReturnLog[k - 1].id
        /\ status = "true" =>
              /\ peek(vm) = ReturnedValue
              /\ {ReturnLog[k].id : k \in 1..Len(ReturnLog)}
                    = {i \in 1..Len(prog.p.levels) : prog.p.levels[i] = "ensure"}

\* the frames above the evaluation depth that have a pending handler
HandlerFrames(m) == {i \in (depth + 1)..Len(m.frames) : m.frames[i].handlers # <<>>}
Nearest(m) == CHOOSE i \in HandlerFrames(m) : \A j \in HandlerFrames(m) : j <= i

\* C2: a raise with a pending handler above the evaluation depth pops the
\* handler-less frames above the nearest frame that has one (their upvalues are
\* closed), pops exactly that frame's innermost handler and resumes at its target
\* with sp = saved_sp + 2 and (exception, CAUSE_EXCEPT) on top; the handler was
\* never entered before.
C2_UnwindToHandler ==
    [][(vm'.g_unw = vm.g_unw + 1 /\ HandlerFrames(vm) # {}) =>
        LET k == Nearest(vm)
            hs == vm.frames[k].handlers
            h == hs[Len(hs)]
        IN  /\ status' = "run"
            /\ Len(vm'.frames) = k
            /\ SubSeq(vm'.frames, 1, k - 1) = SubSeq(vm.frames, 1, k - 1)
            /\ vm'.frames[k].handlers = SubSeq(hs, 1, Len(hs) - 1)
            /\ vm'.frames[k].ip = h.address
            /\ vm'.sp = h.savesp + 2
            /\ isInstance(vm', vm'.stack[h.savesp], vm.excClass)
            /\ (Instr.op = "RAISE" /\ isInstance(vm, peek(vm), vm.excClass))
                  => vm'.stack[h.savesp] = peek(vm)
            /\ Instr.op = "END_TRY" => vm'.stack[h.savesp] = peek2(vm)
            /\ vm'.stack[h.savesp + 1] = NUM_VAL(CAUSE_EXCEPT)
            /\ k < Len(vm.frames) =>
                  \A i \in 1..Len(vm'.upvalues) :
                      vm'.objects[vm'.upvalues[i]].addr < vm.frames[k + 1].stack
            /\ \A i \in 1..Len(vm.g_hlog) : vm.g_hlog[i].id # h.id
      ]_vars

C2_Witness ==
    /\ IsTry /\ prog.p.body = "call_raise" /\ status = "run"
    /\ vm.g_unw = 1 /\ Len(vm.g_hlog) = 1 /\ vm.g_hlog[1].cause = CAUSE_EXCEPT
    /\ Len(vm.frames) = depth + 2 /\ vm.sp = vm.g_hlog[1].sp

\* C5: runEval(depth) returns true only with frameCount = depth and the result on
\* top of the stack in the slot that was the base of the frame it evaluated; false
\* only with frameCount = depth and the exception on top; meanwhile frameCount
\* stays above depth and the frames below depth are untouched.
C5_RunEvalResult ==
    /\ status = "run" => Len(vm.frames) > depth
    /\ status = "true" => Len(vm.frames) = depth /\ vm.sp = depth + 1
    /\ status = "false" => Len(vm.frames) = depth /\ isInstance(vm, peek(vm), vm.excClass)
    /\ depth = 1 => Len(vm.frames) >= 1 /\ vm.frames[1] = HostFrame

C5_Witness ==
    /\ depth = 1 /\ vm.g_unw > 0
    /\ status = "false" /\ Len(vm.frames) = 1 /\ isInstance(vm, peek(vm), vm.excClass)

\* C3: the closures that captured a local, and its frame while the local is in
\* scope, all read the value most recently written to it by any of them; once the
\* scope has ended the closures still read the last written value.
C3_UpvalueSharing ==
    /\ \A u \in UpvalueIds(vm) : UpvalueRead(vm, u) = vm.g_var[vm.objects[u].g_org]
    /\ \A o \in DOMAIN vm.g_var \ vm.g_dead : vm.stack[o.a] = vm.g_var[o]

IsArgs == prog.kind = "args"

\* the call failed with a TypeException "takes <quantity> <expected> arguments,
\* <supplied> supplied", which nothing handles
ArgumentErrorRaised(quantity, expected, supplied) ==
    /\ status' = "false"
    /\ IS_TYPE(vm', peek(vm'), "inst")
    /\ ObjOf(vm', peek(vm')).cls = AS_OBJ(vm.objects[vm.core].globals["TypeException"])
    /\ ObjOf(vm', peek(vm')).msg = Msg("takes_arguments", quantity, expected, supplied)

\* the call entered f with its n parameters above the callee slot: the arguments,
\* then the defaults with indices argc - (n - d) .. d - 1
ArgumentsAdjusted(n, d, vararg, argc) ==
    LET base == vm.sp - argc - 1
        supplied == IF argc < n THEN argc ELSE n
    IN  /\ status' = "run"
        /\ Len(vm'.frames) = Len(vm.frames) + 1
        /\ Top(vm').stack = base
        /\ vm'.sp = base + n + 1 + (IF vararg THEN 1 ELSE 0)
        /\ \A i \in 1..supplied : vm'.stack[base + i] = ArgVal(i)
        /\ \A i \in (supplied + 1)..n : vm'.stack[base + i] = DefaultVal(i - 1 - (n - d))

\* C4 as stated: argc < n - d raises with "at least", a non-varargs call with
\* argc > n raises with "at most", and n - d <= argc <= n succeeds with the defaults
\* argc - (n - d) .. d - 1 in positional order.
C4_AsStated ==
    [][(IsArgs /\ Instr.op = "CALL") =>
        LET n == prog.p.n
            d == prog.p.d
            argc == prog.p.argc
        IN  /\ argc < n - d => ArgumentErrorRaised("at least", n - d, argc)
            /\ (~prog.p.vararg /\ argc > n) => ArgumentErrorRaised("at most", n, argc)
            /\ (n - d <= argc /\ argc <= n) => ArgumentsAdjusted(n, d, prog.p.vararg, argc)
      ]_vars

\* C4 (amended): when a call reaches adjustArguments (the frame limit is not hit),
\* a non-varargs function without defaults called with argc # n raises TypeException
\* with "exactly"; otherwise argc < n - d raises with "at least", a non-varargs call
\* with argc > n raises with "at most", and every other call succeeds, the missing
\* trailing parameters receiving the defaults argc - (n - d) .. d - 1 in positional order.
C4_ArgAdjustment ==
    [][(IsArgs /\ Instr.op = "CALL" /\ Len(vm.frames) + 1 # RECURSION_LIMIT) =>
        LET n == prog.p.n
            d == prog.p.d
            argc == prog.p.argc
            vararg == prog.p.vararg
        IN  IF ~vararg /\ d = 0 /\ argc # n THEN ArgumentErrorRaised("exactly", n, argc)
            ELSE IF argc < n - d THEN ArgumentErrorRaised("at least", n - d, argc)
            ELSE IF ~vararg /\ argc > n THEN ArgumentErrorRaised("at most", n, argc)
            ELSE ArgumentsAdjusted(n, d, vararg, argc)
      ]_vars

\* f was entered with one argument and its second parameter took the second default
C4_Witness ==
    /\ IsArgs /\ prog.p.n = 2 /\ prog.p.d = 2 /\ prog.p.argc = 1
    /\ status = "run" /\ Len(vm.frames) = depth + 2
    /\ vm.stack[Top(vm).stack + 1] = ArgVal(1)
    /\ vm.stack[Top(vm).stack + 2] = DefaultVal(1)

IsField == prog.kind = "field"

\* the step raised an exception of the named class, which nothing handles
Raised(clsName) ==
    /\ status' = "false"
    /\ IS_TYPE(vm', peek(vm'), "inst")
    /\ ObjOf(vm', peek(vm')).cls = AS_OBJ(vm.objects[vm.core].globals[clsName])

\* the step entered a frame of the named function, with this receiver at its base
Entered(fn, receiver) ==
    /\ status' = "run"
    /\ Len(vm'.frames) = Len(vm.frames) + 1
    /\ FrameName(vm', Top(vm')) = fn
    /\ vm'.stack[Top(vm').stack] = receiver

\* C6: on an Instance, inst.m and inst.m() resolve to the field m when the instance
\* has one, whether or not the class has a method m; to the class method only when
\* it has no such field; a miss on both raises FieldException (access) or
\* MethodException (invoke).
C6_FieldShadowsMethod ==
    [][(IsField /\ Instr.op \in {"GET_FIELD", "INVOKE"}) =>
        LET inst == peek(vm)
            kind == prog.p.fieldKind
            hasMethod == prog.p.hasMethod
        IN  /\ IS_TYPE(vm, inst, "inst")
            /\ Instr.op = "GET_FIELD" =>
                  CASE kind = "closure" ->
                         /\ status' = "run" /\ vm'.sp = vm.sp /\ Len(vm'.frames) = Len(vm.frames)
                         /\ IS_TYPE(vm', peek(vm'), "closure") /\ ObjOf(vm', peek(vm')).fn = "fld"
                    [] kind = "num" ->
                         /\ status' = "run" /\ vm'.sp = vm.sp /\ peek(vm') = NUM_VAL(5)
                    [] kind = "none" /\ hasMethod ->
                         /\ status' = "run" /\ vm'.sp = vm.sp
                         /\ IS_TYPE(vm', peek(vm'), "boundmethod")
                         /\ ObjOf(vm', peek(vm')).bound = inst
                         /\ vm.objects[ObjOf(vm', peek(vm')).method].fn = "meth"
                    [] OTHER -> Raised("FieldException")
            /\ Instr.op = "INVOKE" =>
                  CASE kind = "closure" -> Entered("fld", inst)
                    [] kind = "num" -> Raised("TypeException")
                    [] kind = "none" /\ hasMethod -> Entered("meth", inst)
                    [] OTHER -> Raised("MethodException")
      ]_vars

\* inst.m() ran the field closure although the class has a method m
C6_Witness ==
    /\ IsField /\ prog.p.fieldKind = "closure" /\ prog.p.hasMethod /\ prog.p.use = "invoke"
    /\ status = "true" /\ peek(vm) = NUM_VAL(200)

IsOps == prog.kind = "ops"
IsOperator(ins) == ins.op \in {"ADD", "EQ", "ARITH", "COMPARE"}

\* the step replaced the two operands by this value without calling anything
Computed(x) ==
    /\ status' = "run" /\ Len(vm'.frames) = Len(vm.frames)
    /\ vm'.sp = vm.sp - 1 /\ peek(vm') = x

\* the step called the method fn with this receiver and this argument
Overloaded(fn, receiver, arg) ==
    /\ Entered(fn, receiver)
    /\ vm'.sp = Top(vm').stack + 2
    /\ vm'.stack[Top(vm').stack + 1] = arg

\* C7: two numbers are combined primitively and two strings concatenated by +;
\* any other pair calls the forward method of the left operand's class (receiver
\* left, argument right) and, for + - * / % only and only if that method is absent,
\* the reverse method of the right operand's class (receiver right, argument left);
\* otherwise a TypeException naming the operator and both classes, left first, is
\* raised.  == compares a number on the left primitively.
C7_BinaryOperators ==
    [][(IsOps /\ IsOperator(Instr)) =>
        LET op == prog.p.op
            lk == prog.p.lk
            rk == prog.p.rk
            left == peek2(vm)
            right == peek(vm)
        IN  IF lk = "num" /\ rk = "num"
            THEN Computed(IF op = "==" THEN BOOL_VAL(FALSE) ELSE Primitive(op, AS_NUM(LeftNumber), AS_NUM(RightNumber)))
            ELSE IF op = "+" /\ lk = "str" /\ rk = "str"
            THEN /\ status' = "run" /\ Len(vm'.frames) = Len(vm.frames) /\ vm'.sp = vm.sp - 1
                 /\ IS_STRING(vm', peek(vm')) /\ ObjOf(vm', peek(vm')).data = <<"a", "b">>
            ELSE IF op = "==" /\ lk = "num"
            THEN Computed(BOOL_VAL(FALSE))
            ELSE IF lk = "A1"
            THEN Overloaded("fwd", left, right)
            ELSE IF rk = "B1" /\ op \in ArithOps \cup {"+"}
            THEN Overloaded("rev", right, left)
            ELSE /\ Raised("TypeException")
                 /\ ObjOf(vm', peek(vm')).msg =
                        Msg("operator_not_defined", op, getClass(vm, left), getClass(vm, right))
      ]_vars

\* 6 - b ran B's __rsub__ with receiver b and argument 6
C7_Witness ==
    /\ IsOps /\ prog.p.op = "-" /\ prog.p.lk = "num" /\ prog.p.rk = "B1"
    /\ status = "run" /\ Len(vm.frames) = depth + 2
    /\ FrameName(vm, Top(vm)) = "rev"
    /\ IS_TYPE(vm, vm.stack[Top(vm).stack], "inst")
    /\ vm.stack[Top(vm).stack + 1] = LeftNumber

\* the String objects the program can still reach: its constants and the strings
\* on the operand stack
LiveStrings ==
    {AS_OBJ(StrConst(StrConsts[i])) : i \in 1..Len(StrConsts)}
    \cup {AS_OBJ(vm.stack[i]) : i \in {j \in 0..vm.sp - 1 : IS_STRING(vm, vm.stack[j])}}

\* C8: at most one live String object holds any given byte sequence, the strings
\* made by + and by subscripting included.
C8_InternerUniqueness ==
    \A i, j \in LiveStrings : vm.objects[i].data = vm.objects[j].data => i = j

IsImport == prog.kind = "imp"

\* how many times the function fn was called so far
Calls(m, fn) == Cardinality({i \in 1..Len(m.g_calls) : m.g_calls[i] = fn})

\* C9: an IMPORT of a registered module name binds the registered Module object
\* under that name in the importing module's globals, leaves null on the stack and
\* calls nothing; no module's top-level function is ever called twice.
C9_ImportIdempotent ==
    [][(IsImport /\ Instr.op = "IMPORT") =>
        /\ Instr.s \in DOMAIN vm.modules =>
              /\ status' = "run"
              /\ vm'.modules = vm.modules
              /\ hashTableGet(vm'.objects[vm.module].globals, Instr.s)
              /\ vm'.objects[vm.module].globals[Instr.s] = OBJ_VAL(vm.modules[Instr.s])
              /\ vm'.sp = vm.sp + 1 /\ peek(vm') = NULL_VAL
              /\ Len(vm'.frames) = Len(vm.frames)
              /\ vm'.g_calls = vm.g_calls
        /\ \A n \in ModuleFiles : Calls(vm', n) <= 1
      ]_vars

\* main imported m1, whose top-level code imported m2, and then imported m2 itself:
\* m2 is bound in the globals of __main__ and was run once
C9_Witness ==
    /\ IsImport /\ prog.p.names = <<"m1", "m2">> /\ prog.p.in1 = "m2"
    /\ status = "true"
    /\ "m2" \in DOMAIN vm.objects[vm.modules["__main__"]].globals
    /\ Calls(vm, "m2") = 1 /\ Calls(vm, "m1") = 1

\* C10: once eval_break is set during an evaluation, the dispatch loop notices it
\* at its next backward jump or call and raises an Exception, so the evaluation,
\* a loop that would run forever included, comes to an end.
C10_BreakInterrupts == (status = "run" /\ vm.evalBreak = 1) ~> (status # "run")

IsRec == prog.kind = "rec"

\* the step unwound an exception of the named class: it reached the innermost
\* pending handler, or the caller of runEval when there is none
Delivered(clsName) ==
    LET cls == AS_OBJ(vm.objects[vm.core].globals[clsName])
    IN  /\ vm'.g_unw = vm.g_unw + 1
        /\ IF HandlerFrames(vm) # {}
           THEN /\ status' = "run"
                /\ Len(vm'.frames) = Nearest(vm)
                /\ Len(vm'.g_hlog) = Len(vm.g_hlog) + 1
                /\ vm'.g_hlog[Len(vm'.g_hlog)].cause = CAUSE_EXCEPT
                /\ IS_TYPE(vm', vm'.g_hlog[Len(vm'.g_hlog)].val, "inst")
                /\ ObjOf(vm', vm'.g_hlog[Len(vm'.g_hlog)].val).cls = cls
                /\ peek2(vm') = vm'.g_hlog[Len(vm'.g_hlog)].val
           ELSE /\ status' = "false"
                /\ Len(vm'.frames) = depth
                /\ IS_TYPE(vm', peek(vm'), "inst")
                /\ ObjOf(vm', peek(vm')).cls = cls

\* the instruction calls a Closure or a Native: a CALL of one, or the IMPORT of a
\* module that is not registered yet, which calls its top-level function
CallsFunction ==
    \/ Instr.op = "CALL" /\ (IS_TYPE(vm, peekn(vm, Instr.a), "closure") \/ IS_TYPE(vm, peekn(vm, Instr.a), "native"))
    \/ Instr.op = "IMPORT" /\ Instr.s \notin DOMAIN vm.modules /\ Instr.s \in ModuleFiles

\* C11: frameCount never reaches RECURSION_LIMIT; a script or native call attempted
\* when frameCount + 1 = RECURSION_LIMIT pushes no frame and raises
\* StackOverflowException, which is unwound to the innermost pending handler like
\* any other exception (or leaves runEval when there is none).
C11_RecursionLimit ==
    [][/\ Len(vm'.frames) < RECURSION_LIMIT
       /\ (CallsFunction /\ Len(vm.frames) + 1 = RECURSION_LIMIT) =>
              /\ Len(vm'.frames) <= Len(vm.frames)
              /\ Delivered("StackOverflowException")
      ]_vars

\* the call passes a number of arguments the native accepts
NativeArgsFit(native, argc) ==
    IF native.vararg THEN argc >= native.argsCount - native.defaultc
    ELSE argc \in (native.argsCount - native.defaultc)..native.argsCount

\* C12: a native call (below the frame limit) pushes a frame whose base is the
\* callee slot; if the host function returns true the callee and its arguments are
\* replaced by its one return value (sp = base + 1) and frameCount is as before; if
\* it returns false its exception is unwound like a raised one: the native's frame
\* is the first one recorded in the stack trace, then the frames down to the one
\* whose handler is resumed (or down to the evaluation depth), and they are popped.
C12_NativeCall ==
    [][(Instr.op = "CALL" /\ IS_TYPE(vm, peekn(vm, Instr.a), "native")
            /\ Len(vm.frames) + 1 # RECURSION_LIMIT
            /\ NativeArgsFit(ObjOf(vm, peekn(vm, Instr.a)), Instr.a)) =>
        LET base == vm.sp - Instr.a - 1
            native == ObjOf(vm, peekn(vm, Instr.a))
            n == Len(vm.frames)
        IN  /\ vm'.g_calls = Append(vm.g_calls, native.name)
            /\ IF native.fn \notin {"fail", "growfail"}
               THEN /\ status' = "run"
                    /\ vm'.frames = [vm.frames EXCEPT ![n].ip = @ + 1]
                    /\ vm'.sp = base + 1
                    /\ native.fn = "ret" => vm'.stack[base] = NUM_VAL(AS_NUM(peek(vm)) + 37)
                    /\ native.fn = "new" => vm'.stack[base] = NUM_VAL(-1)
                    /\ vm'.g_unw = vm.g_unw
               ELSE LET last == IF HandlerFrames(vm) # {} THEN Nearest(vm) ELSE depth + 1
                        exc == IF status' = "false" THEN peek(vm') ELSE peek2(vm')
                        st == AS_OBJ(ObjOf(vm', exc).fields["stacktrace"])
                    IN  /\ Delivered("Exception")
                        /\ vm'.objects[st].records =
                               <<native.name>> \o [i \in 1..(n - last + 1) |-> FrameName(vm, vm.frames[n - i + 1])]
      ]_vars

\* f(0), three calls deep, called ret(5): 42 replaced the callee and its argument
C12_Witness ==
    /\ IsRec /\ prog.p.leaf = "native" /\ prog.p.k = 2
    /\ status = "run" /\ Instr.op = "POP" /\ peek(vm) = NUM_VAL(42)
    /\ Len(vm.frames) = depth + 4 /\ vm.sp = Top(vm).stack + 3

IsBlockRaise == prog.kind = "hraise"

\* the exceptions a handler block of the program raised so far
BlockExceptions(m) ==
    {i \in 1..Len(m.objects) :
        m.objects[i].type = "inst" /\ m.objects[i].cls = AS_OBJ(m.objects[m.core].globals["TypeException"])}

\* C13: an exception raised by an except or ensure block replaces the outcome that
\* was propagating: it is the one delivered to the next enclosing handler or to the
\* caller of runEval, the handler whose block raised is not entered again (no
\* handler is ever entered twice), and the old exception or pending return value is
\* never delivered afterwards.
C13_BlockRaiseReplaces ==
    [][IsBlockRaise =>
        /\ (Instr.op = "RAISE" /\ AS_OBJ(peek(vm)) \in BlockExceptions(vm)) =>
              /\ Delivered("TypeException")
              /\ (IF status' = "false" THEN peek(vm') ELSE peek2(vm')) = peek(vm)
        /\ \A i, j \in 1..Len(vm'.g_hlog) : vm'.g_hlog[i].id = vm'.g_hlog[j].id => i = j
        /\ (BlockExceptions(vm') # {} /\ status' = "false") => AS_OBJ(peek(vm')) \in BlockExceptions(vm')
        /\ (BlockExceptions(vm') # {} /\ status' = "true") => peek(vm') = NUM_VAL(9)
        /\ BlockExceptions(vm) # {} =>
              \A i \in 1..Len(vm'.g_hlog) :
                  i > Len(vm.g_hlog) => AS_OBJ(vm'.g_hlog[i].val) \in BlockExceptions(vm')
      ]_vars

\* the ensure block of a try statement that was returning 7 raised, and the
\* enclosing except handler received the new exception
C13_Witness ==
    /\ IsBlockRaise /\ prog.p.outer = <<"except_handle">> /\ prog.p.level = "ensure"
    /\ prog.p.body = "ret_num" /\ status = "run"
    /\ Len(vm.g_hlog) = 2 /\ vm.g_hlog[1].cause = CAUSE_RETURN /\ vm.g_hlog[1].val = NUM_VAL(7)
    /\ vm.g_hlog[2].cause = CAUSE_EXCEPT /\ AS_OBJ(vm.g_hlog[2].val) \in BlockExceptions(vm)
    /\ peek2(vm) = vm.g_hlog[2].val

\* the class a method closure was defined in: the oldest class whose method table
\* holds it (the subclasses that inherited it were created later)
DefiningClass(m, closure) ==
    LET owners == {i \in 1..Len(m.objects) :
                      /\ m.objects[i].type = "class"
                      /\ \E n \in DOMAIN m.objects[i].methods : m.objects[i].methods[n] = OBJ_VAL(closure)}
    IN  CHOOSE i \in owners : \A j \in owners : i <= j

\* C14: super.m(...) in a method defined in class C calls the method m of the class
\* that was C's superclass when the method was defined, whatever the receiver's
\* class is, also when the same class declaration was evaluated again with another
\* superclass.
C14_SuperDispatch ==
    [][Instr.op = "SUPER" =>
        LET sup == vm.objects[DefiningClass(vm, Top(vm).fn)].superCls
        IN  Entered(vm.objects[AS_OBJ(vm.objects[sup].methods[Instr.s])].fn, peekn(vm, Instr.a))
      ]_vars

\* C15: whenever an operation of the dispatch loop allocates, every object it has
\* produced or popped and uses afterwards is reachable from a root: the superclass
\* while the new class is allocated, the operands of string +, the elements of
\* packed varargs, the closure whose upvalues are being captured.
C15_RootedAtAllocation == vm.g_unrooted = {}

\* the classes that may not be subclassed: the non-instantiable and the
\* instantiable built-in classes
BuiltinNames ==
    {"Null", "Function", "Module", "StackTrace", "Class", "Table", "Userdata",
     "List", "Tuple", "Number", "Boolean", "String"}

Classes(m) == {i \in 1..Len(m.objects) : m.objects[i].type = "class"}

\* C17: NEW_SUBCLASS raises TypeException and creates no class when the supertype
\* is not a Class or is a built-in class (Null, Function, Module, StackTrace, Class,
\* Table, Userdata, List, Tuple, Number, Boolean, String); otherwise it replaces the
\* supertype on the stack by a new class whose superclass is the given class.
C17_SubclassBuiltin ==
    [][Instr.op = "NEW_SUBCLASS" =>
        LET super == peek(vm)
        IN  IF ~IS_TYPE(vm, super, "class") \/ ObjOf(vm, super).name \in BuiltinNames
            THEN Delivered("TypeException") /\ Classes(vm') = Classes(vm)
            ELSE /\ status' = "run" /\ vm'.sp = vm.sp /\ Len(vm'.frames) = Len(vm.frames)
                 /\ Classes(vm') = Classes(vm) \cup {AS_OBJ(peek(vm'))}
                 /\ AS_OBJ(peek(vm')) \notin Classes(vm)
                 /\ ObjOf(vm', peek(vm')).superCls = AS_OBJ(super)
                 /\ ObjOf(vm', peek(vm')).name = Instr.s
      ]_vars

\* class S is Exception succeeded and class S is the result
C17_Witness ==
    /\ prog.kind = "sub" /\ prog.p.kind = "Exception" /\ status = "true"
    /\ IS_TYPE(vm, peek(vm), "class") /\ ObjOf(vm, peek(vm)).name = "S"
    /\ ObjOf(vm, peek(vm)).superCls = vm.excClass

\* the step left a new Instance of the class in the slot, the argc values above
\* the slot unchanged
Instantiated(cls, slot, argc) ==
    /\ IS_TYPE(vm', vm'.stack[slot], "inst")
    /\ AS_OBJ(vm'.stack[slot]) > Len(vm.objects)
    /\ vm'.objects[AS_OBJ(vm'.stack[slot])].cls = cls
    /\ \A i \in 1..argc : vm'.stack[slot + i] = vm.stack[slot + i]

\* C16: calling a non-instantiable built-in class raises an Exception and pushes
\* no frame; otherwise the callable slot is replaced by a new Instance of the class
\* (null for an instantiable built-in) and the method new of the class is called
\* with the same arguments; when the class has no new, argc > 0 raises
\* TypeException and argc = 0 succeeds without a frame, the new Instance being the
\* result of the call.
C16_CallClass ==
    [][(Instr.op = "CALL" /\ IS_TYPE(vm, peekn(vm, Instr.a), "class")
            /\ Len(vm.frames) + 1 # RECURSION_LIMIT) =>
        LET argc == Instr.a
            slot == vm.sp - argc - 1
            cls == AS_OBJ(peekn(vm, argc))
            name == vm.objects[cls].name
            methods == vm.objects[cls].methods
        IN  IF name \in {"Null", "Function", "Module", "StackTrace", "Class", "Table", "Userdata"}
            THEN Delivered("Exception") /\ vm'.g_calls = vm.g_calls
            ELSE IF "new" \notin DOMAIN methods
            THEN IF argc > 0
                 THEN Delivered("TypeException") /\ vm'.g_calls = vm.g_calls
                 ELSE /\ status' = "run" /\ vm'.frames = [vm.frames EXCEPT ![Len(vm.frames)].ip = @ + 1]
                      /\ vm'.sp = vm.sp /\ Instantiated(cls, slot, 0)
            ELSE IF name \in {"List", "Tuple", "Number", "Boolean", "String"}
            THEN \* the native new ran with a null receiver and its result replaced the call
                 /\ status' = "run" /\ Len(vm'.frames) = Len(vm.frames)
                 /\ vm'.g_calls = Append(vm.g_calls, "new")
                 /\ vm'.sp = slot + 1 /\ vm'.stack[slot] = NUM_VAL(0)
            ELSE IF argc = FnCommon(vm, AS_OBJ(methods["new"])).argsCount
            THEN /\ Entered(FnCommon(vm, AS_OBJ(methods["new"])).name, vm'.stack[slot])
                 /\ Top(vm').stack = slot /\ vm'.sp = vm.sp
                 /\ Instantiated(cls, slot, argc)
            ELSE Delivered("TypeException") /\ vm'.g_calls = vm.g_calls
      ]_vars

\* Number(11) ran the native constructor with a null receiver
C16_Witness ==
    /\ prog.kind = "cls" /\ prog.p.kind = "Number" /\ prog.p.argc = 1
    /\ status = "true" /\ peek(vm) = NUM_VAL(0) /\ vm.g_calls = <<"new">>

\* C18: SET_GLOBAL raises NameException exactly when the name is not defined in the
\* globals of the current module; when it is defined the binding becomes the value
\* on top of the stack, which stays there, and no other binding changes; GET_GLOBAL
\* of a name that is not defined raises NameException.
C18_GlobalAccess ==
    [][/\ Instr.op = "SET_GLOBAL" =>
             IF ~hashTableGet(Globals(vm), Instr.s)
             THEN Delivered("NameException")
             ELSE /\ status' = "run" /\ vm'.g_unw = vm.g_unw
                  /\ Globals(vm') = [Globals(vm) EXCEPT ![Instr.s] = peek(vm)]
                  /\ vm'.sp = vm.sp /\ peek(vm') = peek(vm)
       /\ Instr.op = "GET_GLOBAL" =>
             IF ~hashTableGet(Globals(vm), Instr.s)
             THEN Delivered("NameException")
             ELSE status' = "run" /\ vm'.sp = vm.sp + 1 /\ peek(vm') = Globals(vm)[Instr.s]
      ]_vars

\* x was defined as 1, x = 2 succeeded and main returned 2
C18_Witness ==
    /\ prog.kind = "glob" /\ prog.p.defined /\ prog.p.use = "set"
    /\ status = "true" /\ peek(vm) = NUM_VAL(2) /\ vm.g_unw = 0

\* the step pushed the first k elements of the sequence in place of it
Unpacked(arr, k) ==
    /\ status' = "run" /\ vm'.g_unw = vm.g_unw
    /\ vm'.sp = vm.sp - 1 + k
    /\ \A i \in 1..k : vm'.stack[vm.sp - 2 + i] = arr[i]

\* C19 as stated: unpacking a Tuple or List into k targets raises TypeException
\* unless it has exactly k elements, which are then pushed in order; a value that
\* is neither raises TypeException.
C19_AsStated ==
    [][Instr.op = "UNPACK" =>
        IF (IS_TYPE(vm, peek(vm), "tuple") \/ IS_TYPE(vm, peek(vm), "list"))
              /\ Len(ObjOf(vm, peek(vm)).arr) = Instr.a
        THEN Unpacked(ObjOf(vm, peek(vm)).arr, Instr.a)
        ELSE Delivered("TypeException")
      ]_vars

\* C19 (amended): unpacking a Tuple or List into k targets raises TypeException
\* when it has fewer than k elements; when it has k or more, its first k elements
\* are pushed in order and the others are ignored; a value that is neither raises
\* TypeException.
C19_Unpack ==
    [][Instr.op = "UNPACK" =>
        IF (IS_TYPE(vm, peek(vm), "tuple") \/ IS_TYPE(vm, peek(vm), "list"))
              /\ Len(ObjOf(vm, peek(vm)).arr) >= Instr.a
        THEN Unpacked(ObjOf(vm, peek(vm)).arr, Instr.a)
        ELSE Delivered("TypeException")
      ]_vars

\* the tuple (11, 12, 13) was unpacked into two targets: 12 is the result
C19_Witness ==
    /\ prog.kind = "unp" /\ prog.p.kind = "tuple" /\ prog.p.size = 3 /\ prog.p.k = 2
    /\ status = "true" /\ peek(vm) = ArgVal(2) /\ vm.g_unw = 0

\* the positions of the colons of s, and the colon-separated entries of s
Colons(s) == {i \in 1..Len(s) : s[i] = ":"}

Cut(s, k) ==
    IF k = 0 THEN 0
    ELSE IF k > Cardinality(Colons(s)) THEN Len(s) + 1
    ELSE CHOOSE i \in Colons(s) : Cardinality({j \in Colons(s) : j < i}) = k - 1

Entries(s) ==
    [k \in 1..Cardinality(Colons(s)) + 1 |-> SubSeq(s, Cut(s, k - 1) + 1, Cut(s, k) - 1)]

\* C20 as stated: unless -E is given the colon-separated entries of JSTARPATH come,
\* from left to right, before the base path in the import path; with -E no entry
\* of JSTARPATH is added.
C20_AsStated ==
    status = "paths" =>
        vm.importPaths =
            (IF ~prog.p.ignoreEnv /\ prog.p.env.set THEN Entries(prog.p.env.val) ELSE <<>>)
            \o <<prog.p.path>>

\* C20 (amended): the base path is the first import path; unless -E is given or
\* JSTARPATH is not set, every colon-separated entry of JSTARPATH, empty ones
\* included, follows it from left to right; with -E no entry of JSTARPATH is added.
C20_ImportPaths ==
    status = "paths" =>
        vm.importPaths =
            <<prog.p.path>>
            \o (IF ~prog.p.ignoreEnv /\ prog.p.env.set THEN Entries(prog.p.env.val) ELSE <<>>)

\* JSTARPATH = "a:b" without -E: the import path is the base path, "a", "b"
C20_Witness ==
    /\ status = "paths" /\ ~prog.p.ignoreEnv /\ prog.p.env.set
    /\ prog.p.env.val = <<"a", ":", "b">>
    /\ vm.importPaths = <<prog.p.path, <<"a">>, <<"b">>>>

Exited == status = "exited"

IsReplEval(e) == e.name = "<stdin>"
ReplEvals == SelectSeq(vm.evals, IsReplEval)

\* -v: the version is printed once, the status is 0, no VM was made, nothing ran
VersionOnly ==
    (prog.p.showVersion /\ status # "start") =>
        /\ Exited /\ vm.exit.code = 0 /\ vm.version = 1
        /\ vm.jvm = NULL_VM /\ vm.evals = <<>>

\* the statement of -e is evaluated before any script
StmtFirst ==
    \A j \in 1..Len(vm.evals) :
        (prog.p.execStmt /\ vm.evals[j].name = "script") =>
            \E i \in 1..(j - 1) : vm.evals[i].name = "<string>"

\* no REPL was asked for
RunOnly == ~prog.p.interactive /\ (prog.p.execStmt \/ prog.p.script # "none")

\* the status of a run that ends after the last evaluation
LastResult ==
    IF vm.readFailed THEN vm.exit.code # 0
    ELSE vm.exit.code = vm.evals[Len(vm.evals)].res

\* the status of a run that ends in the REPL
ReplResult ==
    /\ vm.repl
    /\ vm.exit.code = IF ReplEvals = <<>> THEN JSR_SUCCESS ELSE ReplEvals[Len(ReplEvals)].res

\* C21 as stated: -v prints the version and exits 0 without creating a VM; the
\* statement of -e is evaluated before any script; without -i the exit status is
\* the result of the last evaluation performed (non-zero on an IO error); with -i,
\* or with neither script nor -e, the REPL is entered and the exit status is the
\* result of the last REPL evaluation.
C21_AsStated ==
    /\ VersionOnly
    /\ StmtFirst
    /\ (Exited /\ ~prog.p.showVersion) => IF RunOnly THEN LastResult ELSE ReplResult

\* C21 (amended): as stated, except that a script that cannot be read ends the
\* process with EXIT_FAILURE at once, with or without -i, so that with -i the REPL
\* is entered only when the script, if any, could be read; the exit status of a
\* REPL session that evaluated nothing is JSR_SUCCESS.
C21_RunProtocol ==
    /\ VersionOnly
    /\ StmtFirst
    /\ (Exited /\ ~prog.p.showVersion) =>
          IF vm.readFailed
          THEN vm.exit.code = EXIT_FAILURE /\ ~vm.repl /\ prog.p.script # "none"
          ELSE IF RunOnly THEN LastResult ELSE ReplResult

\* -e failed, the script then succeeded, no -i: the status is the script's
C21_Witness ==
    /\ Exited /\ prog.p.execStmt /\ prog.p.script = "d/s" /\ ~prog.p.interactive
    /\ Len(vm.evals) = 2 /\ vm.evals[1] = [name |-> "<string>", res |-> NumErrors]
    /\ vm.evals[2] = [name |-> "script", res |-> JSR_SUCCESS]
    /\ vm.exit.code = 0

\* C22: every JStarBuffer the front end initialises is pushed or freed when the
\* process exits, whatever the exit path; no call is made on a buffer that was
\* pushed or freed and not initialised again, or whose VM has been freed.
C22_BufferProtocol ==
    vm.jvm # NULL_VM =>
        /\ vm.jvm.g_misuse = {}
        /\ Exited => \A b \in BufNames : vm.jvm.g_bufs[b].state \in {"none", "pushed", "freed"}

\* a run through script and REPL has used and freed all four buffers
C22_Witness ==
    /\ Exited /\ vm.jvm # NULL_VM /\ ~vm.jvm.g_alive
    /\ \A b \in BufNames : vm.jvm.g_bufs[b].state = "freed"
    /\ vm.completions > 0 /\ vm.lines > 0

\* the step went on unwinding the exception exc from the frame on top: exc reached
\* the innermost pending handler of the nearest frame that has one, or left runEval
Resumed(exc) ==
    /\ vm'.g_unw = vm.g_unw + 1
    /\ IF HandlerFrames(vm) # {}
       THEN /\ status' = "run"
            /\ Len(vm'.frames) = Nearest(vm)
            /\ Len(vm'.frames[Nearest(vm)].handlers) = Len(vm.frames[Nearest(vm)].handlers) - 1
            /\ peek2(vm') = exc /\ peek(vm') = NUM_VAL(CAUSE_EXCEPT)
       ELSE /\ status' = "false"
            /\ Len(vm'.frames) = depth
            /\ peek(vm') = exc

\* the step took the return path with the value val: the innermost pending ensure
\* handler of the frame was entered with (val, CAUSE_RETURN), or the frame was
\* popped and val handed to the caller
ReturnPath(val) ==
    LET hs == Top(vm).handlers
    IN  /\ vm'.g_unw = vm.g_unw
        /\ IF \E i \in 1..Len(hs) : hs[i].type = "ENSURE"
           THEN /\ status' = "run"
                /\ Len(vm'.frames) = Len(vm.frames)
                /\ Len(Top(vm').handlers) < Len(hs)
                /\ peek2(vm') = val /\ peek(vm') = NUM_VAL(CAUSE_RETURN)
           ELSE /\ Len(vm'.frames) = Len(vm.frames) - 1
                /\ status' = IF Len(vm'.frames) = depth THEN "true" ELSE "run"
                /\ vm'.sp = Top(vm).stack + 1
                /\ peek(vm') = val

\* the step is a plain step to the next instruction of the same frame
FellThrough ==
    /\ status' = "run" /\ vm'.g_unw = vm.g_unw
    /\ Len(vm'.frames) = Len(vm.frames)
    /\ \A i \in 1..Len(vm.frames) : Len(vm'.frames[i].handlers) = Len(vm.frames[i].handlers)
    /\ Top(vm').ip = Top(vm).ip + 1

\* C23: END_TRY with (exception, CAUSE_EXCEPT) on the stack resumes the unwinding
\* of that exception from the current frame; with (value, CAUSE_RETURN) it enters
\* the return path with that value; with (null, null) it changes neither the
\* number of frames nor any number of handlers and falls through.
C23_EndTry ==
    [][Instr.op = "END_TRY" =>
        IF peek(vm) = NUM_VAL(CAUSE_EXCEPT) /\ isInstance(vm, peek2(vm), vm.excClass)
        THEN Resumed(peek2(vm))
        ELSE IF peek(vm) = NUM_VAL(CAUSE_RETURN) THEN ReturnPath(peek2(vm))
        ELSE (IS_NULL(peek(vm)) /\ IS_NULL(peek2(vm))) => FellThrough
      ]_vars

\* the step resumed at a handler; its saved stack pointer
HandlerResumed == Len(vm'.g_hlog) = Len(vm.g_hlog) + 1
SavedSp == vm'.g_hlog[Len(vm'.g_hlog)].sp - 2

\* C24: when unwinding or a return resumes at a handler, exactly the open upvalues
\* of the slots at or above the handler's saved stack pointer are closed; an open
\* upvalue of a slot below it stays open.
C24_HandlerClosesAbove ==
    [][HandlerResumed =>
        \A i \in 1..Len(vm.upvalues) :
            vm'.objects[vm.upvalues[i]].open <=> vm.objects[vm.upvalues[i]].addr < SavedSp
      ]_vars

\* the slot of the i-th upvalue of the open list
OpenAddr(m, i) == m.objects[m.upvalues[i]].addr

\* the open list after closeUpvalues(threshold) holds what was below the threshold,
\* and each upvalue it closed holds the value of its slot
ClosedAt(m, threshold) ==
    LET m2 == closeUpvalues(m, threshold)
        kept == {i \in 1..Len(m.upvalues) : OpenAddr(m, i) < threshold}
    IN  /\ \A i \in 1..Len(m2.upvalues) : OpenAddr(m2, i) < threshold
        /\ {m2.upvalues[i] : i \in 1..Len(m2.upvalues)} = {m.upvalues[i] : i \in kept}
        /\ \A i \in (1..Len(m.upvalues)) \ kept :
              /\ ~m2.objects[m.upvalues[i]].open
              /\ m2.objects[m.upvalues[i]].closed = m.stack[OpenAddr(m, i)]

\* the list of open upvalues is strictly descending by slot, capturing a captured
\* slot returns the upvalue it has, each upvalue of the list is open and points
\* below sp, and closeUpvalues does what ClosedAt says for any threshold
OpenListSorted ==
    /\ \A i \in 1..Len(vm.upvalues) :
          /\ vm.objects[vm.upvalues[i]].open
          /\ OpenAddr(vm, i) \in 0..(vm.sp - 1)
          /\ i > 1 => OpenAddr(vm, i) < OpenAddr(vm, i - 1)
          /\ captureUpvalue(vm, OpenAddr(vm, i)) = [vm |-> vm, uv |-> vm.upvalues[i]]
    /\ \A i \in UpvalueIds(vm) :
          vm.objects[i].open => \E k \in 1..Len(vm.upvalues) : vm.upvalues[k] = i
    /\ \A threshold \in 0..vm.sp : ClosedAt(vm, threshold)

\* each upvalue closed by a step holds the value its slot had
ClosedValueKept ==
    \A i \in 1..Len(vm.upvalues) :
        ~vm'.objects[vm.upvalues[i]].open =>
            vm'.objects[vm.upvalues[i]].closed = vm.stack[OpenAddr(vm, i)]

\* C25: in every reachable state the list of open upvalues is strictly descending
\* by slot (one upvalue per slot at most; capturing a captured slot returns the
\* upvalue it has) and each of its upvalues points to a slot below sp; after
\* closeUpvalues(threshold) no open upvalue has a slot at or above the threshold
\* and each upvalue closed holds the value its slot had when it was closed.
C25_OpenUpvalues == []OpenListSorted /\ [][ClosedValueKept]_vars

\* two locals are captured; an upvalue closed before holds a number
C25_Witness ==
    /\ Len(vm.upvalues) >= 2
    /\ \E i \in UpvalueIds(vm) : ~vm.objects[i].open /\ IS_NUM(vm.objects[i].closed)

\* the step entered a frame, through callFunction or callNative
FrameEntered == Len(vm'.g_calls) = Len(vm.g_calls) + 1

\* the instruction calls a Closure or a Native below the frame limit
PlainCall ==
    /\ Instr.op = "CALL"
    /\ IS_TYPE(vm, peekn(vm, Instr.a), "closure") \/ IS_TYPE(vm, peekn(vm, Instr.a), "native")
    /\ Len(vm.frames) + 1 # RECURSION_LIMIT

\* the frame entered has the callee in its base slot, which is the slot the callee
\* had, the first arguments as its parameters and, for a varargs function, the
\* tuple of the surplus arguments in call order
EnteredWith(c, argc) ==
    LET F == vm'.g_frame
        base == vm.sp - argc - 1
        surplus == IF argc > c.argsCount THEN argc - c.argsCount ELSE 0
    IN  /\ FrameEntered
        /\ F.base = base /\ F.callee = vm.stack[base]
        /\ Len(vm'.frames) = Len(vm.frames) + 1 => Top(vm').stack = base
        /\ \A i \in 1..c.argsCount : i <= argc => F.params[i] = vm.stack[base + i]
        /\ c.vararg =>
              /\ IS_TYPE(vm', F.params[c.argsCount + 1], "tuple")
              /\ ObjOf(vm', F.params[c.argsCount + 1]).arr
                    = [i \in 1..surplus |-> vm.stack[base + c.argsCount + i]]

\* C26: whenever a frame is entered through callFunction or callNative, exactly
\* arity parameter values, plus one Tuple for a varargs function, lie above the
\* base slot of the frame; a call of a Closure or a Native that reaches the
\* adjustment of its arguments enters the frame with the callee in the base slot
\* and, for a varargs function, the max(argc - arity, 0) surplus arguments in the
\* Tuple in call order, and raises TypeException without entering the frame when
\* argc < arity - defaults, varargs or not.
C26_FrameLayout ==
    [][/\ FrameEntered =>
             LET F == vm'.g_frame
                 c == FnCommon(vm', F.fn)
             IN  Len(F.params) = c.argsCount + (IF c.vararg THEN 1 ELSE 0)
       /\ PlainCall =>
             LET c == FnCommon(vm, AS_OBJ(peekn(vm, Instr.a)))
             IN  IF Instr.a < c.argsCount - c.defaultc
                 THEN Delivered("TypeException") /\ ~FrameEntered
                 ELSE (c.vararg \/ Instr.a <= c.argsCount) => EnteredWith(c, Instr.a)
      ]_vars

\* the varargs function f of one parameter was entered with three arguments
C26_Witness ==
    /\ IsArgs /\ prog.p.n = 1 /\ prog.p.vararg /\ prog.p.argc = 3
    /\ status = "run" /\ Len(vm.frames) = depth + 2
    /\ vm.stack[Top(vm).stack + 1] = ArgVal(1)
    /\ ObjOf(vm, vm.stack[Top(vm).stack + 2]).arr = <<ArgVal(2), ArgVal(3)>>

----------------------------------------------------------------------------
(* Names of a module: invocation and field access *)

\* the step is INVOKE name argc with a Module as the receiver
ModuleInvoke == At("INVOKE") /\ IS_TYPE(vm, peekn(vm, Instr.a), "module")

\* the step called this callable
Called(callee) ==
    vm'.g_calls = Append(vm.g_calls, FrameName(vm, [fn |-> AS_OBJ(callee)]))

\* C27: invoking a name on a Module calls the module's global of that name when
\* it has one and a method of the Module class only when it has none, so that
\* mod.f(args) calls what the field access mod.f yields.
C27_ModuleInvoke ==
    [][ModuleInvoke =>
          LET mod == AS_OBJ(peekn(vm, Instr.a))
              globals == vm.objects[mod].globals
              methods == vm.objects[vm.modClass].methods
          IN  IF hashTableGet(globals, Instr.s) THEN Called(globals[Instr.s])
              ELSE IF hashTableGet(methods, Instr.s) THEN Called(methods[Instr.s])
              ELSE Raised("NameException")]_vars

----------------------------------------------------------------------------
(* Method tables *)

\* the step created a class: NEW_CLASS or NEW_SUBCLASS left a new Class on the stack
ClassCreated ==
    /\ At("NEW_CLASS") \/ At("NEW_SUBCLASS")
    /\ IS_TYPE(vm', peek(vm'), "class")
    /\ AS_OBJ(peek(vm')) > Len(vm.objects)

\* the new class has every entry of the table its superclass had
Inherits ==
    LET cls == vm'.objects[AS_OBJ(peek(vm'))]
        super == vm.objects[cls.superCls].methods
    IN  \A n \in DOMAIN super : hashTableGet(cls.methods, n) /\ cls.methods[n] = super[n]

\* DEF_METHOD name puts the closure in the table of the class below it and
\* changes the table of no other class
OnlyOwnEntry ==
    LET cls == AS_OBJ(peek2(vm))
    IN  /\ vm'.objects[cls].methods = hashTablePut(vm.objects[cls].methods, Instr.s, peek(vm))
        /\ \A c \in Classes(vm) \ {cls} : vm'.objects[c].methods = vm.objects[c].methods

\* the step looks a method up by name: INVOKE on a value that is neither a Module
\* nor an Instance with a field of that name, or SUPER
IsLookup ==
    \/ /\ At("INVOKE")
       /\ ~IS_TYPE(vm, peekn(vm, Instr.a), "module")
       /\ ~(IS_TYPE(vm, peekn(vm, Instr.a), "inst") /\ hashTableGet(ObjOf(vm, peekn(vm, Instr.a)).fields, Instr.s))
    \/ At("SUPER")

LookupClass ==
    IF Instr.op = "SUPER" THEN AS_OBJ(vm.superConst[FrameName(vm, Top(vm))])
    ELSE getClass(vm, peekn(vm, Instr.a))

\* the table of the class alone decides: its entry is called, and without one
\* MethodException is raised whatever the superclasses have
OwnTable ==
    LET methods == vm.objects[LookupClass].methods
    IN  IF hashTableGet(methods, Instr.s)
        THEN Called(methods[Instr.s])
        ELSE Delivered("MethodException")

\* C28: a class just created has every entry of its superclass's method table;
\* DEF_METHOD changes only the table of the class it defines the method in; method
\* lookup uses the table of the receiver's class only.
C28_MethodTables ==
    [][/\ ClassCreated => Inherits
       /\ At("DEF_METHOD") => OnlyOwnEntry
       /\ IsLookup => OwnTable]_vars

\* a subclass that kept the method it inherited, of a class that replaced the one
\* it inherited, after the method was invoked
C28_Witness ==
    /\ status = "true"
    /\ \E d, c \in Classes(vm) :
          /\ vm.objects[d].superCls = c
          /\ vm.objects[c].superCls \in Classes(vm)
          /\ hashTableGet(vm.objects[vm.objects[c].superCls].methods, "m")
          /\ vm.objects[d].methods["m"] = vm.objects[c].methods["m"]
          /\ vm.objects[c].methods["m"] # vm.objects[vm.objects[c].superCls].methods["m"]

----------------------------------------------------------------------------
(* Import forms *)

\* the step is IMPORT_AS or IMPORT_FROM of a module that is registered or that a
\* file exists for
ImportsAs == At("IMPORT_AS") /\ (Instr.s \in DOMAIN vm.modules \/ Instr.s \in ModuleFiles)
ImportsFrom == At("IMPORT_FROM") /\ (Instr.s \in DOMAIN vm.modules \/ Instr.s \in ModuleFiles)

\* the globals of the importing module before and after the step
Importer == vm.objects[vm.module].globals
ImporterAfter == vm'.objects[vm.module].globals

\* the module is registered after the step; its top-level function was entered if
\* it was not registered before, and no function otherwise
Prepared(name) ==
    /\ name \in DOMAIN vm'.modules
    /\ IF name \in DOMAIN vm.modules
       THEN vm'.modules[name] = vm.modules[name] /\ vm'.g_calls = vm.g_calls
       ELSE vm'.g_calls = Append(vm.g_calls, name)

\* the original reading of C29: after IMPORT_AS the module is bound under the alias
\* and under its own name
C29_AsStated ==
    [][/\ ImportsAs =>
            /\ Prepared(Instr.s)
            /\ hashTableGet(ImporterAfter, Instr.t) /\ ImporterAfter[Instr.t] = OBJ_VAL(vm'.modules[Instr.s])
            /\ hashTableGet(ImporterAfter, Instr.s) /\ ImporterAfter[Instr.s] = OBJ_VAL(vm'.modules[Instr.s])
       /\ ImportsFrom => Prepared(Instr.s) /\ ImporterAfter = Importer]_vars

\* C29: IMPORT_AS name alias binds the imported Module under the alias in the
\* importing module's globals and makes no binding under the module's own name;
\* IMPORT_FROM registers the module, runs its top-level code when it is imported
\* for the first time, and leaves the importing module's globals as they were.
C29_ImportForms ==
    [][/\ ImportsAs =>
            /\ Prepared(Instr.s)
            /\ ImporterAfter = hashTablePut(Importer, Instr.t, OBJ_VAL(vm'.modules[Instr.s]))
       /\ ImportsFrom => Prepared(Instr.s) /\ ImporterAfter = Importer]_vars

\* import m1 as x and import m1 for v have run to the end, m1 not being imported
\* before: the main module has x and not m1, or v and not m1
C29_Witness ==
    /\ prog.kind = "impform" /\ ~prog.p.pre /\ status = "true"
    /\ vm.objects[vm.module].name = "__main__"
    /\ ~hashTableGet(vm.objects[vm.module].globals, "m1")
    /\ "m1" \in DOMAIN vm.modules
    /\ hashTableGet(vm.objects[vm.modules["m1"]].globals, "v")
    /\ \/ prog.p.form = "as" /\ vm.objects[vm.module].globals["x"] = OBJ_VAL(vm.modules["m1"])
       \/ prog.p.form = "from" /\ hashTableGet(vm.objects[vm.module].globals, "v")

\* the globals of the module that IMPORT_NAME reads
Exporter == vm.objects[vm.modules[Instr.s]].globals

\* C30: IMPORT_NAME module name puts module.globals[name] under name in the
\* importing module's globals; a name the module does not define raises
\* NameException and leaves these globals as they were; for the name * the
\* module's bindings whose names do not begin with an underscore are copied and
\* nothing is raised.
C30_ImportName ==
    [][At("IMPORT_NAME") =>
          IF Instr.t = "*"
          THEN /\ status' = "run" /\ vm'.g_unw = vm.g_unw
               /\ DOMAIN ImporterAfter = DOMAIN Importer \cup (DOMAIN Exporter \ UnderscoreNames)
               /\ \A n \in DOMAIN ImporterAfter :
                     ImporterAfter[n] = IF n \in DOMAIN Exporter \ UnderscoreNames THEN Exporter[n]
                                        ELSE Importer[n]
          ELSE IF hashTableGet(Exporter, Instr.t)
          THEN /\ status' = "run" /\ vm'.g_unw = vm.g_unw
               /\ ImporterAfter = hashTablePut(Importer, Instr.t, Exporter[Instr.t])
          ELSE Delivered("NameException") /\ ImporterAfter = Importer]_vars

\* import m1 for * has run to the end: the main module has v and not _h, which m1
\* defines as well
C30_Witness ==
    /\ prog.kind = "impform" /\ prog.p.name = "*" /\ status = "true"
    /\ vm.objects[vm.module].name = "__main__"
    /\ hashTableGet(vm.objects[vm.modules["m1"]].globals, "_h")
    /\ hashTableGet(vm.objects[vm.module].globals, "v")
    /\ vm.objects[vm.module].globals["v"] = vm.objects[vm.modules["m1"]].globals["v"]
    /\ ~hashTableGet(vm.objects[vm.module].globals, "_h")

----------------------------------------------------------------------------
(* Raising *)

\* the exception the step delivered: to a handler (below its cause) or to the
\* caller of runEval
DeliveredValue == IF status' = "false" THEN peek(vm') ELSE peek2(vm')

\* the classes that are Exception or extend it
ExceptionClasses(m) == {c \in Classes(m) : superChain(m, c, m.excClass)}

IsException(m, x) == IS_TYPE(m, x, "inst") /\ ObjOf(m, x).cls \in ExceptionClasses(m)

\* the exception carries a StackTrace that the step allocated
FreshTrace(exc) ==
    LET fields == vm'.objects[AS_OBJ(exc)].fields
    IN  /\ hashTableGet(fields, "stacktrace")
        /\ IS_TYPE(vm', fields["stacktrace"], "stacktrace")
        /\ AS_OBJ(fields["stacktrace"]) > Len(vm.objects)

\* C31: RAISE unwinds the value on top of the stack only if it is an instance of
\* Exception or of a class that extends it; for any other value a new
\* TypeException is unwound instead; the exception unwound carries a StackTrace
\* that this RAISE allocated, whatever trace it carried before.
C31_Raise ==
    [][At("RAISE") =>
          /\ vm'.g_unw = vm.g_unw + 1
          /\ IF IsException(vm, peek(vm))
             THEN DeliveredValue = peek(vm)
             ELSE /\ Delivered("TypeException")
                  /\ AS_OBJ(DeliveredValue) > Len(vm.objects)
          /\ FreshTrace(DeliveredValue)]_vars

\* an instance of the subclass E of Exception was raised and handled, and raised
\* again: it left runEval with another StackTrace than the first
C31_Witness ==
    /\ prog.kind = "raise" /\ prog.p.what = "E" /\ prog.p.twice
    /\ status = "false" /\ IsException(vm, peek(vm))
    /\ \E st \in 1..Len(vm.objects) :
          /\ vm.objects[st].type = "stacktrace" /\ vm.objects[st].records # <<>>
          /\ OBJ_VAL(st) # ObjOf(vm, peek(vm)).fields["stacktrace"]
          /\ st < AS_OBJ(ObjOf(vm, peek(vm)).fields["stacktrace"])

----------------------------------------------------------------------------
(* Handler counts *)

\* handlerc of the frame
handlerc(frame) == Len(frame.handlers)

HandlersInBounds ==
    \A i \in 1..Len(vm.frames) : handlerc(vm.frames[i]) \in 0..HANDLER_MAX

----------------------------------------------------------------------------
(* Bound methods *)

BoundMethods(m) == {i \in 1..Len(m.objects) : m.objects[i].type = "boundmethod"}

\* the instruction calls a BoundMethod below the frame limit
BoundCall ==
    /\ At("CALL") /\ IS_TYPE(vm, peekn(vm, Instr.a), "boundmethod")
    /\ Len(vm.frames) + 1 # RECURSION_LIMIT

\* the step is a field access that binds a method: the value accessed is neither an
\* Instance nor a Module that has the name itself, and its class has the method
BindsMethod ==
    /\ At("GET_FIELD")
    /\ LET val == peek(vm)
       IN  /\ IS_TYPE(vm, val, "inst") => ~hashTableGet(ObjOf(vm, val).fields, Instr.s)
           /\ IS_TYPE(vm, val, "module") => ~hashTableGet(ObjOf(vm, val).globals, Instr.s)
           /\ hashTableGet(vm.objects[getClass(vm, val)].methods, Instr.s)

\* C33: a call of a BoundMethod with argc arguments enters the frame of the bound
\* callable with the bound receiver in the slot the BoundMethod had and the argc
\* arguments above it; no step changes the receiver or the callable of an existing
\* BoundMethod; a field access that binds a method leaves a new BoundMethod of the
\* value and the method in the slot of the value, sp unchanged.
C33_BoundMethod ==
    [][/\ BoundCall =>
             LET bm == ObjOf(vm, peekn(vm, Instr.a))
                 c == FnCommon(vm, bm.method)
                 F == vm'.g_frame
                 base == vm.sp - Instr.a - 1
             IN  IF Instr.a < c.argsCount - c.defaultc \/ (~c.vararg /\ Instr.a > c.argsCount)
                 THEN Delivered("TypeException") /\ ~FrameEntered
                 ELSE /\ FrameEntered
                      /\ F.fn = bm.method /\ F.base = base /\ F.callee = bm.bound
                      /\ \A i \in 1..c.argsCount : i <= Instr.a => F.params[i] = vm.stack[base + i]
       /\ \A i \in BoundMethods(vm) :
             /\ vm'.objects[i].type = "boundmethod"
             /\ vm'.objects[i].bound = vm.objects[i].bound
             /\ vm'.objects[i].method = vm.objects[i].method
       /\ BindsMethod =>
             /\ status' = "run" /\ vm'.sp = vm.sp
             /\ IS_TYPE(vm', peek(vm'), "boundmethod")
             /\ AS_OBJ(peek(vm')) > Len(vm.objects)
             /\ ObjOf(vm', peek(vm')).bound = peek(vm)
             /\ OBJ_VAL(ObjOf(vm', peek(vm')).method) = vm.objects[getClass(vm, peek(vm))].methods[Instr.s]
      ]_vars

\* the method m taken from an instance of A was called through the BoundMethod
\* after an assignment to a field of the BoundMethod was refused: it returned the
\* instance
C33_Witness ==
    /\ prog.kind = "bound" /\ prog.p.kind = "closure" /\ prog.p.set /\ prog.p.argc = 1
    /\ status = "true" /\ IS_TYPE(vm, peek(vm), "inst")
    /\ \E i \in BoundMethods(vm) : vm.objects[i].bound = peek(vm)

----------------------------------------------------------------------------
(* Failed assignment to a global *)

\* C34: a SET_GLOBAL of a name that the current module does not define raises
\* NameException and leaves the module's globals as they were, so that the name is
\* still undefined afterwards.
C34_FailedSetGlobal ==
    [][(At("SET_GLOBAL") /\ ~hashTableGet(Globals(vm), Instr.s)) =>
          /\ Delivered("NameException")
          /\ vm'.objects[vm.module].globals = Globals(vm)
          /\ ~hashTableGet(vm'.objects[vm.module].globals, Instr.s)]_vars

----------------------------------------------------------------------------
(* The current module *)

\* the dispatch loop is about to execute an instruction of a script frame
Dispatching ==
    /\ status = "run" /\ Len(vm.frames) > 0
    /\ vm.objects[Top(vm).fn].type = "closure"

\* C35: whenever the dispatch loop executes an instruction of a script frame,
\* vm->module is the module of the function of that frame.
C35_CurrentModule ==
    Dispatching => vm.module = vm.modules[prog.fns[vm.objects[Top(vm).fn].fn].module]

\* the handler of main runs after a native called by a function of m1 failed:
\* three frames of three modules were left
C35_Witness ==
    /\ prog.kind = "cross" /\ prog.p.body = "native_fail" /\ prog.p.caught
    /\ Dispatching /\ Len(vm.frames) = depth + 1
    /\ vm.g_unw = 1 /\ vm.g_calls = <<"m1", "mf", "fail">>
    /\ vm.objects[vm.module].name = "__main__"

----------------------------------------------------------------------------
(* The frames array *)

\* C36: frameCount < frameSz in every state, whatever stack size the VM was
\* created with.
C36_FrameArray == Len(vm.frames) < vm.frameSz

----------------------------------------------------------------------------
(* The API stack accessors of vm.h.  The API frame is [apiStack, sp); a host     *)
(* function names a cell by a slot, counted from the bottom of the frame when     *)
(* it is not negative and from the top when it is.  Here the variable vm holds    *)
(* the operand stack with the two pointers as offsets, prog the slot asked for,   *)
(* and index and value what apiStackIndex and apiStackSlot returned.              *)

\* most cells of an API frame
MaxSlots == 3

\* highest offset of the API frame in the operand stack
MaxApiBase == 2

\* a failed ASSERT ends the process with its message
Abort(msg) == [assert |-> msg, ret |-> 0]

Returns(x) == [assert |-> "", ret |-> x]

apiStackIndex(m, slot) ==
    IF ~(m.sp - slot > m.apiStack) THEN Abort("API stack slot would be negative")
    ELSE IF ~(m.apiStack + slot < m.sp) THEN Abort("API stack overflow")
    ELSE IF slot < 0 THEN Returns(m.sp + slot - m.apiStack)
    ELSE Returns(slot)

\* the offset in the operand stack of the cell apiStackSlot reads: vm->sp[slot] or
\* vm->apiStack[slot]
apiStackSlot(m, slot) ==
    IF ~(m.sp - slot > m.apiStack) THEN Abort("API stack slot would be negative")
    ELSE IF ~(m.apiStack + slot < m.sp) THEN Abort("API stack overflow")
    ELSE IF slot < 0 THEN Returns(m.sp + slot)
    ELSE Returns(m.apiStack + slot)

\* what a read of the operand stack at an offset can yield: the cell, or anything
\* when the offset is outside the allocation (undefined behaviour)
ReadCell(m, off) ==
    IF off \in DOMAIN m.stack THEN {m.stack[off]}
    ELSE {NULL_VAL, NUM_VAL(0), [t |-> "fault", v |-> 0]}

ApiStates ==
    {[stack |-> [i \in 0..(MaxApiBase + MaxSlots - 1) |-> NUM_VAL(10 + i)],
      apiStack |-> a, sp |-> a + n,
      index |-> -1, value |-> NULL_VAL] :
        a \in 0..MaxApiBase, n \in 0..MaxSlots}

ApiCalls ==
    {[kind |-> "api", p |-> [slot |-> s], fns |-> [n \in {} |-> 0]] :
        s \in (0 - MaxSlots - MaxApiBase - 1)..(MaxSlots + 1)}

InitApi ==
    /\ vm \in ApiStates
    /\ prog \in ApiCalls
    /\ depth = 0
    /\ status = "start"

ApiStackIndex ==
    /\ status = "start"
    /\ LET r == apiStackIndex(vm, prog.p.slot)
       IN  IF r.assert # ""
           THEN status' = "abort" /\ UNCHANGED vm
           ELSE status' = "index" /\ vm' = [vm EXCEPT !.index = r.ret]
    /\ UNCHANGED <<prog, depth>>

ApiStackSlot ==
    /\ status = "index"
    /\ LET r == apiStackSlot(vm, prog.p.slot)
       IN  IF r.assert # ""
           THEN status' = "abort" /\ UNCHANGED vm
           ELSE /\ status' = "slot"
                /\ \E v \in ReadCell(vm, r.ret) : vm' = [vm EXCEPT !.value = v]
    /\ UNCHANGED <<prog, depth>>

NextApi == ApiStackIndex \/ ApiStackSlot

SpecApi == InitApi /\ [][NextApi]_vars

\* the cell of the API frame a slot denotes, as an index from apiStack
SlotInFrame(m, slot) ==
    IF slot >= 0 THEN slot < m.sp - m.apiStack
    ELSE 0 - slot <= m.sp - m.apiStack

Denoted(m, slot) == IF slot >= 0 THEN slot ELSE (m.sp - m.apiStack) + slot

\* C37: apiStackIndex and apiStackSlot return only for a slot inside the API frame
\* [apiStack, sp), every other slot tripping an assertion; the index returned is
\* k for the slot k >= 0 and that of the k-th cell from the top for the slot -k,
\* and apiStackSlot yields the value at that index of the frame.
C37_ApiSlots ==
    /\ status \in {"index", "slot"} =>
         /\ SlotInFrame(vm, prog.p.slot)
         /\ vm.index = Denoted(vm, prog.p.slot)
    /\ status = "slot" => vm.value = vm.stack[vm.apiStack + vm.index]

----------------------------------------------------------------------------
\* a native is about to be called by a CALL instruction, and what callNative makes
\* of the VM
NativeCall == At("CALL") /\ IS_TYPE(vm, peekn(vm, Instr.a), "native")

NativeResult == callNative(Fetched, AS_OBJ(peekn(vm, Instr.a)), Instr.a)

----------------------------------------------------------------------------
\* an IMPORT of a module not imported before executes at the frame limit: the call
\* of the module's top-level function fails
ImportCallFails ==
    /\ At("IMPORT") /\ Instr.s \notin DOMAIN vm.modules /\ Instr.s \in ModuleFiles
    /\ Len(vm.frames) + 1 = RECURSION_LIMIT

\* C39: when the call of a freshly imported module's top-level function fails, the
\* IMPORT instruction unwinds with the exception of the call (StackOverflowException
\* at the frame limit) and the importing function does not go on with its next
\* instruction.
C39_ImportUnwinds ==
    [][ImportCallFails =>
          /\ Delivered("StackOverflowException")
          /\ ~(status' = "run" /\ vm'.frames = Fetched.frames)
      ]_vars

====
